---- MODULE Spec2Model ----
(***************************************************************************)
(* A model of paqet's raw packet datapath.                                 *)
(*                                                                         *)
(*   Spec      the send pipeline of internal/socket/send_handle.go:        *)
(*             Write callers, processQueue workers, Close.                 *)
(*   FairSpec  Spec with the scheduling fairness of goroutines and of      *)
(*             Go's select.                                                *)
(*   SpecTCP   executeWrite called in sequence on several flows, with      *)
(*             segments arriving from the remote (RecvHandle.Read).        *)
(*   SpecIter  a fresh iterator.Iterator and its Next calls.               *)
(***************************************************************************)
EXTENDS Integers, Naturals, Sequences, FiniteSets, TLC

\* ------------------------------------------------------------------ bounds
NumReqs == 2
MaxEmits == 3
MaxItems == 3
MaxCalls == 7
MaxStrmCalls == 1
MaxRebuilds == 1
MaxAccepts == 2
MaxTimeouts == 2
MaxAcceptErrs == 1
MaxClock == 3
MaxReads == 2
MaxWrites == 2
MaxRetryNo == 10
MaxDraws == 2
MaxBuilds == 2
MaxFlagDraws == 2
MaxFailures == 6
MaxHeaders == 9

\* ------------------------------------------------------- program constants
U16 == 65536

Reqs == 1..NumReqs
Dests == {1, 2}
PipeDests == {1}
PayloadLens == {0, 100}
PipeLens == {4}
NoReq == 0

\* conf.TCPF values, written as the set of flags that are true
PA == {"PSH", "ACK"}
A == {"ACK"}
S == {"SYN"}
FA == {"FIN", "ACK"}

\* cfg.PCAP.SendQueueSize: the capacity NewSendHandle gives h.sendQueue
QueueSizes == {1, 2}

\* cfg.Performance.PacketWorkers: NewSendHandle starts that many workers
WorkerCounts == {1, 2}
WorkerIds == UNION {1..n : n \in WorkerCounts}

\* cfg.PCAP.MaxRetries: no retry, or a failed write is retried
RetryLimits == {0, 1}

\* cfg.TCP.LF: the local flag profiles a configuration can supply
LocalFlagLists == {<<PA, A>>, <<S, PA, FA>>}

\* h.time: boot-derived millisecond base, truncated to uint32
BootTimes == {<<0, 1000>>, <<65535, 65535>>}

VARIABLES
  cfg,            \* conf.Network: SendQueueSize, MaxRetries, PacketWorkers, LF
  sendQueue,      \* h.sendQueue: buffered channel of *sendRequest
  queueClosed,    \* close(h.sendQueue) has run
  ctxDone,        \* h.ctx is cancelled
  droppedPackets, \* h.droppedPackets
  wpc,            \* position of the Write call that owns request r
  wret,           \* value that Write call returned
  accepted,       \* requests Write has put on the queue
  reqAddr,        \* req.addr
  reqLen,         \* len(req.payload)
  retries,        \* req.retries
  errChan,        \* req.errChan: buffered channel of capacity 1
  attempts,       \* number of executeWrite calls made for r
  completions,    \* number of sends on req.errChan
  kpc,            \* position of worker w in processQueue
  kreq,           \* the request worker w holds
  cpc,            \* position of the Close call
  bootTime,       \* h.time
  tsCounter,      \* h.tsCounter
  tcpFIndex,      \* h.tcpF.tcpF.index
  wire,           \* per flow, the last two segments injected
  observed,       \* per flow, the last segment RecvHandle.Read returned
  emits,          \* number of executeWrite calls so far
  itItems,        \* Iterator.Items
  itIndex,        \* Iterator.index
  itReturned,     \* the values Next has returned, in call order
  clCfg,          \* client: len(c.iter.Items), cfg.Performance.MaxRetryAttempts
  clIndex,        \* client: c.iter.index
  slotConn,       \* client: tc.conn of every ring slot, as a connection id
  connState,      \* client: what every connection ever created is doing
  picks,          \* client: how often newConn selected every slot
  pingFailed,     \* client: a ping of the slot failed and no rebuild followed
  dpc,            \* client: position of caller d in newStrmWithRetry
  dattempt,       \* client: the attempt argument of caller d's current call
  dconn,          \* client: the conn newConn handed to caller d
  dret,           \* client: what caller d's last newStrm call returned
  dcalls,         \* client: newConn and OpenStrm calls of d's current call
  strmCalls,      \* client: number of newStrm calls started
  tki,            \* client: the ticker's position in its loop over the ring
  clCtxDone,      \* client: the ticker's ctx is cancelled
  plCfg,          \* server: EnableConnectionPooling, TCPConnectionPoolSize
  plConns,        \* pool: p.conns, a buffered channel of *poolConn
  plClosed,       \* pool: p.closed
  plChanClosed,   \* pool: close(p.conns) has run (after p.cancel())
  plClose,        \* pool: position of the ConnPool.Close call
  plAgain,        \* pool: what a second ConnPool.Close call returned
  tcState,        \* target connections: "none", "open" or "closed"
  tcPooled,       \* target connections: wrapped in a poolConn
  unusable,       \* poolConn.unusable
  sawErr,         \* the handler got an error from a copy on the connection
  hpc,            \* handleTCP call h: position
  hconn,          \* handleTCP call h: conn
  herr,           \* handleTCP call h: errChan, capacity 2
  copy,           \* handleTCP call h: the two CopyT goroutines
  srvCtxDone,     \* server: the ctx handed to handleTCP is cancelled
  swpc,           \* pool sweeper: position in cleanupIdleConns
  swLeft,         \* pool sweeper: iterations left of the toCheck loop
  swHeld,         \* pool sweeper: the connection it has taken out
  acCtxDone,      \* Server.Start: the root ctx is cancelled
  lsCtxSet,       \* quic Listener: SetContext was given the root ctx
  lsClosed,       \* listener.Close() has run
  lpc,            \* Server.listen: position of the accept loop
  acRet,          \* what the Accept call in progress returned
  spawned,        \* connections handed to handleConn goroutines
  timeouts,       \* accept timeouts in the Accept call in progress
  acErrs,         \* Accept calls that failed on a live, open listener
  lateAccepts,    \* connections Accept returned after the cancellation
  pcCtxDone,      \* PacketConn: c.ctx is cancelled
  rhState,        \* PacketConn: recvHandle is "open", "closing" or "closed"
  readDeadline,   \* PacketConn: c.readDeadline, 0 for the zero time
  clock,          \* the time
  rpc,            \* ReadFrom: position of the call
  callDl,         \* ReadFrom: the deadline d the call loaded
  rret,           \* ReadFrom: what the last call returned
  frames,         \* frames captured and not yet read
  reads,          \* ReadFrom calls started
  shState,        \* PacketConn: sendHandle is "open", "closing" or "closed"
  writeDeadline,  \* PacketConn: c.writeDeadline, 0 for the zero time
  wtRet,          \* WriteTo: what the last call returned
  writes,         \* WriteTo calls made
  callArgs,       \* a call of a function: its receiver and arguments
  callRes,        \* that call: <<>> while it runs, then <<its result>>
  optData,        \* SendHandle: OptionData of synOptions[2] and ackOptions[2]
  bld             \* worker w inside executeWrite: the header it builds

pipeVars == <<cfg, sendQueue, queueClosed, ctxDone, droppedPackets, wpc, wret,
              accepted, reqAddr, reqLen, retries, errChan, attempts,
              completions, kpc, kreq, cpc>>
tcpVars == <<bootTime, tsCounter, tcpFIndex, wire, observed, emits>>
iterVars == <<itItems, itIndex, itReturned>>
clientVars == <<clCfg, clIndex, slotConn, connState, picks, pingFailed, dpc,
                dattempt, dconn, dret, dcalls, strmCalls, tki, clCtxDone>>
poolVars == <<plCfg, plConns, plClosed, plChanClosed, plClose, plAgain, tcState,
              tcPooled, unusable, sawErr, hpc, hconn, herr, copy, srvCtxDone,
              swpc, swLeft, swHeld>>
acVars == <<acCtxDone, lsCtxSet, lsClosed, lpc, acRet, spawned, timeouts,
            acErrs, lateAccepts>>
wtVars == <<writeDeadline, wtRet, writes>>
pconnVars == <<pcCtxDone, rhState, readDeadline, clock, rpc, callDl, rret,
               frames, reads, shState, wtVars>>
callVars == <<callArgs, callRes>>
optVars == <<optData, bld>>
moreVars == <<callVars, optVars>>
restVars == <<clientVars, poolVars, acVars, pconnVars, moreVars>>
vars == <<pipeVars, tcpVars, iterVars, restVars>>

\* ------------------------------------------------------------ iterator.go
RECURSIVE BitAnd(_, _)
BitAnd(a, b) ==
  IF a = 0 \/ b = 0 THEN 0
  ELSE (a % 2) * (b % 2) + 2 * BitAnd(a \div 2, b \div 2)

\* the index never moves: every call returns the same element
IteratorNextIndexStuck(index) == index

\* Iterator.Next: the index is advanced first (index.Add(1) returns the new
\* value) and the element at the new index is returned.  Go slices are
\* 0-based, sequences 1-based.
IteratorNextIndex(index) == index + 1

IteratorNext(items, index) ==
  LET n == Len(items)
      i == IteratorNextIndex(index)
  IN IF BitAnd(n, n - 1) = 0
       THEN items[BitAnd(i, n - 1) + 1]
       ELSE items[(i % n) + 1]

\* ------------------------------------------------------ uint32 arithmetic
\* A uint32 is the pair <<high 16 bits, low 16 bits>>.
U32FromInt(n) == <<(n \div U16) % U16, n % U16>>

Add32(x, y) ==
  LET lo == x[2] + y[2]
  IN <<(x[1] + y[1] + (lo \div U16)) % U16, lo % U16>>

Sub32(x, y) ==
  LET lo == x[2] - y[2] + U16
  IN <<(x[1] - y[1] - (IF lo < U16 THEN 1 ELSE 0) + U16) % U16, lo % U16>>

\* x >> 3
Shr3(x) == <<x[1] \div 8, (x[2] \div 8) + (x[1] % 8) * 8192>>

\* x << 7
Shl7(x) == <<((x[1] * 128) + (x[2] \div 512)) % U16, (x[2] * 128) % U16>>

\* x & (2^k - 1) for 2^k <= 65536, as an integer
LowBits(x, m) == x[2] % m

\* x % 200, as an integer (65536 % 200 = 136)
Mod200(x) == ((x[1] % 200) * 136 + (x[2] % 200)) % 200

\* -------------------------------------------------- buildTCPHeader (Go)
tsValOf(time, counter) == Add32(time, Shr3(counter))

tsEcrOf(tsVal, counter, f) ==
  IF "SYN" \in f THEN U32FromInt(0)
  ELSE Sub32(tsVal, U32FromInt(Mod200(counter) + 50))

seqOf(time, counter, f) ==
  IF "SYN" \in f THEN U32FromInt(1 + LowBits(counter, 8))
  ELSE Add32(time, Shl7(counter))

ackOf(time, counter, f) ==
  IF "SYN" \in f
    THEN IF "ACK" \in f THEN Add32(seqOf(time, counter, f), U32FromInt(1))
                        ELSE U32FromInt(0)
    ELSE Add32(Sub32(seqOf(time, counter, f),
                     U32FromInt(LowBits(counter, 1024))),
               U32FromInt(1400))

buildTCPHeader(time, counter, f, dstPort) ==
  LET tsVal == tsValOf(time, counter)
  IN [dst |-> dstPort, flags |-> f, tsval |-> tsVal,
      tsecr |-> tsEcrOf(tsVal, counter, f),
      seq |-> seqOf(time, counter, f),
      ack |-> ackOf(time, counter, f)]

LastTwo(s) == IF Len(s) <= 2 THEN s ELSE SubSeq(s, Len(s) - 1, Len(s))

\* executeWrite: pick the flag profile (getClientTCPF) and build the header
\* (buildTCPHeader); both advance shared state whatever the outcome of the
\* injection is.
segmentOf(d, l) ==
  LET f == IteratorNext(cfg.LF, tcpFIndex)
      hdr == buildTCPHeader(bootTime, Add32(tsCounter, U32FromInt(1)), f, d)
  IN [dst |-> hdr.dst, flags |-> hdr.flags, seq |-> hdr.seq, ack |-> hdr.ack,
      tsval |-> hdr.tsval, tsecr |-> hdr.tsecr, len |-> l]

executeWrite(d, l) ==
  /\ tcpFIndex' = IteratorNextIndex(tcpFIndex)
  /\ tsCounter' = Add32(tsCounter, U32FromInt(1))
  /\ UNCHANGED bootTime

\* ------------------------------------------------- segments on the wire
\* RecvHandle.Read: the TCPMeta of a captured segment.  HasTS is false when
\* the segment carries no Timestamps option.
RemoteMetas ==
  {[Seq |-> U32FromInt(1000), PayloadLen |-> 50, SYN |-> FALSE, FIN |-> FALSE,
    HasTS |-> TRUE, TSVal |-> U32FromInt(777)],
   [Seq |-> U32FromInt(2000), PayloadLen |-> 0, SYN |-> TRUE, FIN |-> FALSE,
    HasTS |-> FALSE, TSVal |-> U32FromInt(0)]}

NoneObserved == [seen |-> FALSE, tsSeen |-> FALSE]

\* Read returns the meta of a segment from remote endpoint d.  Nothing in
\* the sender reads it: the send handle's state is left as it is.
Read(d, meta) ==
  /\ observed' = [observed EXCEPT ![d] =
       [seen |-> TRUE, meta |-> meta,
        tsSeen |-> meta.HasTS \/ @.tsSeen,
        tsval |-> IF meta.HasTS THEN meta.TSVal
                  ELSE IF @.tsSeen THEN @.tsval ELSE U32FromInt(0)]]
  /\ UNCHANGED <<bootTime, tsCounter, tcpFIndex, wire, emits>>

\* A worker's executeWrite for a request to d with l payload bytes; when the
\* injection succeeds the segment goes out on the wire.
Inject(d, l, ok) ==
  /\ emits < MaxEmits
  /\ executeWrite(d, l)
  /\ emits' = emits + 1
  /\ wire' = IF ok
               THEN [wire EXCEPT ![d] =
                       LastTwo(Append(@, [seg |-> segmentOf(d, l),
                                          obs |-> observed[d]]))]
               ELSE wire
  /\ UNCHANGED observed

\* ------------------------------------------------ send_handle.go: Write
\* a queue that takes one request more than its capacity
QueueFullOffByOne == Len(sendQueue) > cfg.SendQueueSize

\* no room in the buffer of h.sendQueue
QueueFull == Len(sendQueue) >= cfg.SendQueueSize

\* Request r belongs to the r-th Write call to reach its first select.
Starting(r) == wpc[r] = "init" /\ \A q \in Reqs : q < r => wpc[q] # "init"

\* a Write that returns as soon as its request is queued
WriteEnqueueReturns(r, a, l) ==
  /\ Starting(r)
  /\ ~queueClosed
  /\ ~QueueFull
  /\ sendQueue' = Append(sendQueue, r)
  /\ reqAddr' = [reqAddr EXCEPT ![r] = a]
  /\ reqLen' = [reqLen EXCEPT ![r] = l]
  /\ accepted' = accepted \cup {r}
  /\ wpc' = [wpc EXCEPT ![r] = "done"]
  /\ UNCHANGED <<cfg, queueClosed, ctxDone, droppedPackets, wret, retries,
                 errChan, attempts, completions, kpc, kreq, cpc>>

\* case h.sendQueue <- req (channel open, buffer not full)
WriteEnqueue(r, a, l) ==
  /\ Starting(r)
  /\ ~queueClosed
  /\ ~QueueFull
  /\ sendQueue' = Append(sendQueue, r)
  /\ reqAddr' = [reqAddr EXCEPT ![r] = a]
  /\ reqLen' = [reqLen EXCEPT ![r] = l]
  /\ accepted' = accepted \cup {r}
  /\ wpc' = [wpc EXCEPT ![r] = "wait"]
  /\ UNCHANGED <<cfg, queueClosed, ctxDone, droppedPackets, wret, retries,
                 errChan, attempts, completions, kpc, kreq, cpc>>

\* case <-h.ctx.Done(): return h.ctx.Err()
WriteCancelled(r) ==
  /\ Starting(r)
  /\ ctxDone
  /\ wpc' = [wpc EXCEPT ![r] = "done"]
  /\ wret' = [wret EXCEPT ![r] = "Cancelled"]
  /\ UNCHANGED <<cfg, sendQueue, queueClosed, ctxDone, droppedPackets,
                 accepted, reqAddr, reqLen, retries, errChan, attempts,
                 completions, kpc, kreq, cpc>>

\* case h.sendQueue <- req on a closed channel: the send case is ready and
\* panics when select picks it
WriteClosedQueue(r) ==
  /\ Starting(r)
  /\ queueClosed
  /\ wpc' = [wpc EXCEPT ![r] = "done"]
  /\ wret' = [wret EXCEPT ![r] = "panic"]
  /\ UNCHANGED <<cfg, sendQueue, queueClosed, ctxDone, droppedPackets,
                 accepted, reqAddr, reqLen, retries, errChan, attempts,
                 completions, kpc, kreq, cpc>>

\* the default case without the dropped-packet count
WriteQueueFullNoCount(r) ==
  /\ Starting(r)
  /\ ~queueClosed
  /\ ~ctxDone
  /\ QueueFull
  /\ wpc' = [wpc EXCEPT ![r] = "done"]
  /\ wret' = [wret EXCEPT ![r] = "QueueFull"]
  /\ UNCHANGED <<cfg, sendQueue, queueClosed, ctxDone, droppedPackets,
                 accepted, reqAddr, reqLen, retries, errChan, attempts,
                 completions, kpc, kreq, cpc>>

\* default: taken only when no other case is ready
WriteQueueFull(r) ==
  /\ Starting(r)
  /\ ~queueClosed
  /\ ~ctxDone
  /\ QueueFull
  /\ droppedPackets' = droppedPackets + 1
  /\ wpc' = [wpc EXCEPT ![r] = "done"]
  /\ wret' = [wret EXCEPT ![r] = "QueueFull"]
  /\ UNCHANGED <<cfg, sendQueue, queueClosed, ctxDone, accepted, reqAddr,
                 reqLen, retries, errChan, attempts, completions, kpc, kreq,
                 cpc>>

\* second select: case err := <-req.errChan
WriteResult(r) ==
  /\ wpc[r] = "wait"
  /\ errChan[r] # <<>>
  /\ wret' = [wret EXCEPT ![r] = Head(errChan[r])]
  /\ errChan' = [errChan EXCEPT ![r] = Tail(@)]
  /\ wpc' = [wpc EXCEPT ![r] = "done"]
  /\ UNCHANGED <<cfg, sendQueue, queueClosed, ctxDone, droppedPackets,
                 accepted, reqAddr, reqLen, retries, attempts, completions,
                 kpc, kreq, cpc>>

\* second select: case <-h.ctx.Done()
WriteWaitCancelled(r) ==
  /\ wpc[r] = "wait"
  /\ ctxDone
  /\ wret' = [wret EXCEPT ![r] = "Cancelled"]
  /\ wpc' = [wpc EXCEPT ![r] = "done"]
  /\ UNCHANGED <<cfg, sendQueue, queueClosed, ctxDone, droppedPackets,
                 accepted, reqAddr, reqLen, retries, errChan, attempts,
                 completions, kpc, kreq, cpc>>

\* ----------------------------------------- send_handle.go: processQueue
Workers == 1..cfg.PacketWorkers

\* req.errChan <- v: blocks while the one-slot buffer is occupied
Signal(r, v) ==
  /\ Len(errChan[r]) < 1
  /\ errChan' = [errChan EXCEPT ![r] = Append(@, v)]
  /\ completions' = [completions EXCEPT ![r] = @ + 1]

\* a worker that ranges over the queue and only stops once it is closed
WorkerExitOnClosedQueue(w) ==
  /\ kpc[w] = "select"
  /\ queueClosed
  /\ sendQueue = <<>>
  /\ kpc' = [kpc EXCEPT ![w] = "done"]
  /\ UNCHANGED <<cfg, sendQueue, queueClosed, ctxDone, droppedPackets, wpc,
                 wret, accepted, reqAddr, reqLen, retries, errChan, attempts,
                 completions, kreq, cpc>>

\* case <-h.ctx.Done(): return
WorkerExit(w) ==
  /\ kpc[w] = "select"
  /\ ctxDone
  /\ kpc' = [kpc EXCEPT ![w] = "done"]
  /\ UNCHANGED <<cfg, sendQueue, queueClosed, ctxDone, droppedPackets, wpc,
                 wret, accepted, reqAddr, reqLen, retries, errChan, attempts,
                 completions, kreq, cpc>>

\* case req := <-h.sendQueue
WorkerDequeue(w) ==
  /\ kpc[w] = "select"
  /\ sendQueue # <<>>
  /\ kreq' = [kreq EXCEPT ![w] = Head(sendQueue)]
  /\ sendQueue' = Tail(sendQueue)
  /\ kpc' = [kpc EXCEPT ![w] = "exec"]
  /\ UNCHANGED <<cfg, queueClosed, ctxDone, droppedPackets, wpc, wret,
                 accepted, reqAddr, reqLen, retries, errChan, attempts,
                 completions, cpc>>

\* the retry test with <= in place of <
ShouldRetryOffByOne(r, ok) == ~ok /\ retries[r] <= cfg.MaxRetries

\* err != nil && req.retries < h.cfg.PCAP.MaxRetries
ShouldRetry(r, ok) == ~ok /\ retries[r] < cfg.MaxRetries

\* the result is reported after every attempt, also when a retry follows
WorkerExecuteSignalEachAttempt(w, ok) ==
  LET r == kreq[w] IN
  /\ kpc[w] = "exec"
  /\ attempts' = [attempts EXCEPT ![r] = @ + 1]
  /\ Signal(r, IF ok THEN "nil" ELSE "InjectErr")
  /\ IF ShouldRetry(r, ok)
       THEN /\ retries' = [retries EXCEPT ![r] = @ + 1]
            /\ kpc' = [kpc EXCEPT ![w] = "backoff"]
            /\ UNCHANGED kreq
       ELSE /\ kpc' = [kpc EXCEPT ![w] = "select"]
            /\ kreq' = [kreq EXCEPT ![w] = NoReq]
            /\ UNCHANGED retries
  /\ UNCHANGED <<cfg, sendQueue, queueClosed, ctxDone, droppedPackets, wpc,
                 wret, accepted, reqAddr, reqLen, cpc>>

\* err := h.executeWrite(req) and the branch on its result
WorkerExecute(w, ok) ==
  LET r == kreq[w] IN
  /\ kpc[w] = "exec"
  /\ attempts' = [attempts EXCEPT ![r] = @ + 1]
  /\ IF ShouldRetry(r, ok)
       THEN /\ retries' = [retries EXCEPT ![r] = @ + 1]
            /\ kpc' = [kpc EXCEPT ![w] = "backoff"]
            /\ UNCHANGED <<errChan, completions, kreq>>
       ELSE /\ Signal(r, IF ok THEN "nil" ELSE "InjectErr")
            /\ kpc' = [kpc EXCEPT ![w] = "select"]
            /\ kreq' = [kreq EXCEPT ![w] = NoReq]
            /\ UNCHANGED retries
  /\ UNCHANGED <<cfg, sendQueue, queueClosed, ctxDone, droppedPackets, wpc,
                 wret, accepted, reqAddr, reqLen, cpc>>

\* a worker that forgets the request instead of queueing it again
BackoffRequeueLoses(w) ==
  /\ kpc[w] = "backoff"
  /\ ~queueClosed
  /\ ~QueueFull
  /\ kpc' = [kpc EXCEPT ![w] = "select"]
  /\ kreq' = [kreq EXCEPT ![w] = NoReq]
  /\ UNCHANGED <<cfg, sendQueue, queueClosed, ctxDone, droppedPackets, wpc,
                 wret, accepted, reqAddr, reqLen, retries, errChan, attempts,
                 completions, cpc>>

\* time.After(backoff) fired; inner select, case h.sendQueue <- req: continue
BackoffRequeue(w) ==
  /\ kpc[w] = "backoff"
  /\ ~queueClosed
  /\ ~QueueFull
  /\ sendQueue' = Append(sendQueue, kreq[w])
  /\ kpc' = [kpc EXCEPT ![w] = "select"]
  /\ kreq' = [kreq EXCEPT ![w] = NoReq]
  /\ UNCHANGED <<cfg, queueClosed, ctxDone, droppedPackets, wpc, wret,
                 accepted, reqAddr, reqLen, retries, errChan, attempts,
                 completions, cpc>>

\* the drop on a full queue without the report to the caller
BackoffDropSilently(w) ==
  /\ kpc[w] = "backoff"
  /\ ~queueClosed
  /\ ~ctxDone
  /\ QueueFull
  /\ droppedPackets' = droppedPackets + 1
  /\ kpc' = [kpc EXCEPT ![w] = "select"]
  /\ kreq' = [kreq EXCEPT ![w] = NoReq]
  /\ UNCHANGED <<cfg, sendQueue, queueClosed, ctxDone, wpc, wret, accepted,
                 reqAddr, reqLen, retries, attempts, cpc, errChan,
                 completions>>

\* inner select, default: queue full on retry, drop and report
BackoffDrop(w) ==
  /\ kpc[w] = "backoff"
  /\ ~queueClosed
  /\ ~ctxDone
  /\ QueueFull
  /\ droppedPackets' = droppedPackets + 1
  /\ Signal(kreq[w], "QueueFullRetry")
  /\ kpc' = [kpc EXCEPT ![w] = "select"]
  /\ kreq' = [kreq EXCEPT ![w] = NoReq]
  /\ UNCHANGED <<cfg, sendQueue, queueClosed, ctxDone, wpc, wret, accepted,
                 reqAddr, reqLen, retries, attempts, cpc>>

\* case <-h.ctx.Done() of the outer or of the inner select: report and return
BackoffCancelled(w) ==
  /\ kpc[w] = "backoff"
  /\ ctxDone
  /\ Signal(kreq[w], "Cancelled")
  /\ kpc' = [kpc EXCEPT ![w] = "done"]
  /\ kreq' = [kreq EXCEPT ![w] = NoReq]
  /\ UNCHANGED <<cfg, sendQueue, queueClosed, ctxDone, droppedPackets, wpc,
                 wret, accepted, reqAddr, reqLen, retries, attempts, cpc>>

\* ------------------------------------------------ send_handle.go: Close
\* h.cancel()
CloseCancel ==
  /\ cpc = "idle"
  /\ ctxDone' = TRUE
  /\ cpc' = "wait"
  /\ UNCHANGED <<cfg, sendQueue, queueClosed, droppedPackets, wpc, wret,
                 accepted, reqAddr, reqLen, retries, errChan, attempts,
                 completions, kpc, kreq>>

\* h.wg.Wait() returned; close(h.sendQueue); h.handle.Close()
CloseFinish ==
  /\ cpc = "wait"
  /\ \A w \in Workers : kpc[w] = "done"
  /\ queueClosed' = TRUE
  /\ cpc' = "done"
  /\ UNCHANGED <<cfg, sendQueue, ctxDone, droppedPackets, wpc, wret,
                 accepted, reqAddr, reqLen, retries, errChan, attempts,
                 completions, kpc, kreq>>

\* ------------------------------------- client/dial.go, client/ticker.go
\* len(c.iter.Items): the session ring, one timedConn per slot
RingSizes == {1, 2, 3}
RingIds == 1..3

\* cfg.Performance.MaxRetryAttempts
RetryAttemptCfgs == {0, 1, 2}

\* the goroutine that calls newStrm (newConn runs under c.mu)
Dialers == {1}

\* connections: the ring's first ones and those createConn makes later
ConnIds == 1..(3 + MaxRebuilds)
NoConn == 0

Slots == 1..clCfg.N

\* c.iter.Items, every timedConn named by its slot
RingItems == [s \in Slots |-> s]

\* maxAttempts of newStrmWithRetry: 5 when the configured value is <= 0
MaxAttemptsOf(n) == IF n <= 0 THEN 5 ELSE n

\* conn.Ping returns an error when the connection is no longer alive
PingFails(c) == connState[c] # "alive"

\* the connection a successful tc.createConn() returns
FreshConn ==
  CHOOSE c \in ConnIds :
    /\ connState[c] = "none"
    /\ \A b \in ConnIds : connState[b] = "none" => c <= b

\* newConn, run under c.mu: select tc := c.iter.Next(), ping it without
\* waiting, on a failed ping close tc.conn and replace it by createConn()'s
\* connection if that succeeds, return tc.conn with a nil error.
\* (go tc.sendTCPF(tc.conn) writes to the peer only.)
newConn(d, createOk) ==
  LET s == IteratorNext(RingItems, clIndex)
      old == slotConn[s]
  IN
  /\ clIndex' = IteratorNextIndex(clIndex)
  /\ picks' = [picks EXCEPT ![s] = @ + 1]
  /\ IF PingFails(old)
       THEN IF createOk
              THEN /\ \E c \in ConnIds : connState[c] = "none"
                   /\ connState' = [connState EXCEPT ![old] = "closed",
                                                     ![FreshConn] = "alive"]
                   /\ slotConn' = [slotConn EXCEPT ![s] = FreshConn]
                   /\ pingFailed' = [pingFailed EXCEPT ![s] = FALSE]
                   /\ dconn' = [dconn EXCEPT ![d] = FreshConn]
              ELSE /\ connState' = [connState EXCEPT ![old] = "closed"]
                   /\ pingFailed' = [pingFailed EXCEPT ![s] = TRUE]
                   /\ dconn' = [dconn EXCEPT ![d] = old]
                   /\ UNCHANGED slotConn
       ELSE /\ dconn' = [dconn EXCEPT ![d] = old]
            /\ UNCHANGED <<connState, slotConn, pingFailed>>

\* newStrm: return c.newStrmWithRetry(0)
StartStrm(d) ==
  /\ dpc[d] = "idle"
  /\ strmCalls < MaxStrmCalls
  /\ strmCalls' = strmCalls + 1
  /\ dpc' = [dpc EXCEPT ![d] = "attempt"]
  /\ dattempt' = [dattempt EXCEPT ![d] = 0]
  /\ dcalls' = [dcalls EXCEPT ![d] = [newConn |-> 0, openStrm |-> 0]]
  /\ dret' = [dret EXCEPT ![d] = "none"]
  /\ UNCHANGED <<clCfg, clIndex, slotConn, connState, picks, pingFailed,
                 dconn, tki, clCtxDone>>

\* the attempt test with > in place of >=
AttemptsExhaustedOffByOne(d) ==
  dattempt[d] > MaxAttemptsOf(clCfg.MaxRetryAttempts)

\* attempt >= maxAttempts
AttemptsExhausted(d) ==
  dattempt[d] >= MaxAttemptsOf(clCfg.MaxRetryAttempts)

\* entry of newStrmWithRetry(attempt): give up, or call newConn
Attempt(d, createOk) ==
  /\ dpc[d] = "attempt"
  /\ IF AttemptsExhausted(d)
       THEN /\ dpc' = [dpc EXCEPT ![d] = "idle"]
            /\ dret' = [dret EXCEPT ![d] = "error"]
            /\ UNCHANGED <<clIndex, slotConn, connState, picks, pingFailed,
                           dconn, dcalls>>
       ELSE /\ newConn(d, createOk)
            /\ dpc' = [dpc EXCEPT ![d] = "openStrm"]
            /\ dcalls' = [dcalls EXCEPT ![d].newConn = @ + 1]
            /\ UNCHANGED dret
  /\ UNCHANGED <<clCfg, dattempt, strmCalls, tki, clCtxDone>>

\* strm, err := conn.OpenStrm(): a stream only on a connection that is alive
OpenStrm(d, ok) ==
  /\ dpc[d] = "openStrm"
  /\ ok => connState[dconn[d]] = "alive"
  /\ dcalls' = [dcalls EXCEPT ![d].openStrm = @ + 1]
  /\ IF ok
       THEN /\ dpc' = [dpc EXCEPT ![d] = "idle"]
            /\ dret' = [dret EXCEPT ![d] = "strm"]
       ELSE /\ dpc' = [dpc EXCEPT ![d] = "backoff"]
            /\ UNCHANGED dret
  /\ UNCHANGED <<clCfg, clIndex, slotConn, connState, picks, pingFailed,
                 dattempt, dconn, strmCalls, tki, clCtxDone>>

\* time.Sleep(backoff); return c.newStrmWithRetry(attempt + 1)
Backoff(d) ==
  /\ dpc[d] = "backoff"
  /\ dattempt' = [dattempt EXCEPT ![d] = @ + 1]
  /\ dpc' = [dpc EXCEPT ![d] = "attempt"]
  /\ UNCHANGED <<clCfg, clIndex, slotConn, connState, picks, pingFailed,
                 dconn, dret, dcalls, strmCalls, tki, clCtxDone>>

\* the peer or the network drops a connection
ConnLost(c) ==
  /\ connState[c] = "alive"
  /\ connState' = [connState EXCEPT ![c] = "lost"]
  /\ UNCHANGED <<clCfg, clIndex, slotConn, picks, pingFailed, dpc, dattempt,
                 dconn, dret, dcalls, strmCalls, tki, clCtxDone>>

\* ticker: case <-timer.C
TickerFire ==
  /\ tki = 0
  /\ ~clCtxDone
  /\ tki' = 1
  /\ UNCHANGED <<clCfg, clIndex, slotConn, connState, picks, pingFailed,
                 dpc, dattempt, dconn, dret, dcalls, strmCalls, clCtxDone>>

\* ticker: _ = tc.conn.Ping(true) for the next slot; after the last slot
\* timer.Reset(interval).  The result of the ping is dropped.
TickerPing ==
  /\ tki \in Slots
  /\ pingFailed' = [pingFailed EXCEPT
                      ![tki] = @ \/ PingFails(slotConn[tki])]
  /\ tki' = IF tki = clCfg.N THEN 0 ELSE tki + 1
  /\ UNCHANGED <<clCfg, clIndex, slotConn, connState, picks, dpc, dattempt,
                 dconn, dret, dcalls, strmCalls, clCtxDone>>

\* ticker: case <-ctx.Done(): return
TickerStop ==
  /\ tki = 0
  /\ clCtxDone
  /\ tki' = -1
  /\ UNCHANGED <<clCfg, clIndex, slotConn, connState, picks, pingFailed,
                 dpc, dattempt, dconn, dret, dcalls, strmCalls, clCtxDone>>

\* the context handed to ticker is cancelled
ClientCancel ==
  /\ ~clCtxDone
  /\ clCtxDone' = TRUE
  /\ UNCHANGED <<clCfg, clIndex, slotConn, connState, picks, pingFailed,
                 dpc, dattempt, dconn, dret, dcalls, strmCalls, tki>>

\* the ring as the client starts with it: every slot holds a live connection
InitClientRing ==
  /\ clIndex = 0
  /\ slotConn = [s \in RingIds |-> IF s \in Slots THEN s ELSE NoConn]
  /\ connState = [c \in ConnIds |-> IF c \in Slots THEN "alive" ELSE "none"]
  /\ picks = [s \in RingIds |-> 0]
  /\ pingFailed = [s \in RingIds |-> FALSE]
  /\ dpc = [d \in Dialers |-> "idle"]
  /\ dattempt = [d \in Dialers |-> 0]
  /\ dconn = [d \in Dialers |-> NoConn]
  /\ dret = [d \in Dialers |-> "none"]
  /\ dcalls = [d \in Dialers |-> [newConn |-> 0, openStrm |-> 0]]
  /\ strmCalls = 0
  /\ tki = 0
  /\ clCtxDone = FALSE

InitClientIdle ==
  /\ clCfg = [N |-> 1, MaxRetryAttempts |-> 1]
  /\ InitClientRing

\* ------------------------------- connpool (part_008), server.go: handleTCP
\* cfg.Performance.TCPConnectionPoolSize
PoolSizeCfgs == {0, 1}

\* the handleTCP calls that run concurrently
Handlers == {1, 2}

\* target connections: every handleTCP call dials or creates at most one
TargetConns == 1..2
NoTarget == 0

Dirs == {"up", "down"}

\* connpool.New: maxPoolSize is 10 when the given size is <= 0
MaxPoolSizeOf(n) == IF n <= 0 THEN 10 ELSE n

\* the connection a dial (the pool's factory or handleTCP's own) returns
FreshTarget ==
  CHOOSE c \in TargetConns :
    /\ tcState[c] = "none"
    /\ \A b \in TargetConns : tcState[b] = "none" => c <= b

InPool(c) == \E i \in 1..Len(plConns) : plConns[i] = c

\* a send on p.conns would block only at capacity + 1
PoolHasRoomOffByOne == Len(plConns) <= MaxPoolSizeOf(plCfg.Size)

\* case p.conns <- pc succeeds
PoolHasRoom == Len(plConns) < MaxPoolSizeOf(plCfg.Size)

\* MarkUnusable that forgets to set the flag
MarkUnusableDropped(c) == unusable

\* poolConn.MarkUnusable (handleTCP calls it on a conn that has the method)
MarkUnusable(c) ==
  IF tcPooled[c] THEN [unusable EXCEPT ![c] = TRUE] ELSE unusable

\* a put that stores the connection without looking at p.closed
ConnCloseIgnoresClosed(c, un) ==
  IF ~tcPooled[c] \/ un[c] \/ ~PoolHasRoom
    THEN /\ tcState' = [tcState EXCEPT ![c] = "closed"]
         /\ UNCHANGED plConns
    ELSE /\ plConns' = Append(plConns, c)
         /\ UNCHANGED tcState

\* conn.Close() as handleTCP's defer runs it, with the flags as in un:
\* net.Conn.Close for a dialled connection; poolConn.Close and ConnPool.put
\* for a pooled one (put runs under p.mu.RLock).
ConnClose(c, un) ==
  IF ~tcPooled[c] \/ un[c] \/ plClosed \/ ~PoolHasRoom
    THEN /\ tcState' = [tcState EXCEPT ![c] = "closed"]
         /\ UNCHANGED plConns
    ELSE /\ plConns' = Append(plConns, c)
         /\ UNCHANGED tcState

\* the two goroutines handleTCP starts, and its errChan
StartPiping(h, c) ==
  /\ hconn' = [hconn EXCEPT ![h] = c]
  /\ copy' = [copy EXCEPT ![h] = [d \in Dirs |-> "run"]]
  /\ hpc' = [hpc EXCEPT ![h] = "piping"]

\* handleTCP up to pool.Get's test of p.closed: with pooling off, or the
\* pool closed (ErrPoolClosed), dial directly; a failed dial returns.
HandleStart(h, dialOk) ==
  /\ hpc[h] = "idle"
  /\ IF plCfg.Pooling /\ ~plClosed
       THEN /\ hpc' = [hpc EXCEPT ![h] = "get"]
            /\ UNCHANGED <<tcState, tcPooled, hconn, copy>>
       ELSE IF dialOk /\ ~srvCtxDone
         THEN /\ tcState' = [tcState EXCEPT ![FreshTarget] = "open"]
              /\ StartPiping(h, FreshTarget)
              /\ UNCHANGED tcPooled
         ELSE /\ hpc' = [hpc EXCEPT ![h] = "done"]
              /\ UNCHANGED <<tcState, tcPooled, hconn, copy>>
  /\ UNCHANGED <<plCfg, plConns, plClosed, plChanClosed, plClose, plAgain, unusable,
                 sawErr, herr, srvCtxDone, swpc, swLeft, swHeld>>

\* pool.Get, case pc := <-p.conns: a pooled connection is handed out (its
\* SetDeadline test passes on a connection that was not closed locally); a
\* receive on the closed, empty channel yields nil and pc.Conn panics.
GetPooled(h) ==
  /\ hpc[h] = "get"
  /\ IF plConns # <<>>
       THEN /\ plConns' = Tail(plConns)
            /\ StartPiping(h, Head(plConns))
       ELSE /\ plChanClosed
            /\ hpc' = [hpc EXCEPT ![h] = "panic"]
            /\ UNCHANGED <<plConns, hconn, copy>>
  /\ UNCHANGED <<plCfg, plClosed, plChanClosed, plClose, plAgain, tcState, tcPooled,
                 unusable, sawErr, herr, srvCtxDone, swpc, swLeft, swHeld>>

\* pool.Get, default: p.factory(ctx); on its error handleTCP dials itself
GetFresh(h, factoryOk, dialOk) ==
  /\ hpc[h] = "get"
  /\ plConns = <<>>
  /\ ~plChanClosed
  /\ IF (factoryOk \/ dialOk) /\ ~srvCtxDone
       THEN /\ tcState' = [tcState EXCEPT ![FreshTarget] = "open"]
            /\ tcPooled' = [tcPooled EXCEPT ![FreshTarget] = factoryOk]
            /\ StartPiping(h, FreshTarget)
       ELSE /\ hpc' = [hpc EXCEPT ![h] = "done"]
            /\ UNCHANGED <<tcState, tcPooled, hconn, copy>>
  /\ UNCHANGED <<plCfg, plConns, plClosed, plChanClosed, plClose, plAgain, unusable,
                 sawErr, herr, srvCtxDone, swpc, swLeft, swHeld>>

\* pool.Get, case <-ctx.Done(): ctx.Err(); the direct dial that follows
\* fails on the cancelled context and handleTCP returns
GetCancelled(h) ==
  /\ hpc[h] = "get"
  /\ srvCtxDone
  /\ hpc' = [hpc EXCEPT ![h] = "done"]
  /\ UNCHANGED <<plCfg, plConns, plClosed, plChanClosed, plClose, plAgain, tcState,
                 tcPooled, unusable, sawErr, hconn, herr, copy, srvCtxDone,
                 swpc, swLeft, swHeld>>

\* buffer.CopyT returns (nil at end of input, else the I/O error) and the
\* goroutine sends the result on errChan
CopyEnd(h, dir, e) ==
  /\ copy[h][dir] = "run"
  /\ copy' = [copy EXCEPT ![h][dir] = "done"]
  /\ herr' = [herr EXCEPT ![h] = Append(@, e)]
  /\ UNCHANGED <<plCfg, plConns, plClosed, plChanClosed, plClose, plAgain, tcState,
                 tcPooled, unusable, sawErr, hpc, hconn, srvCtxDone, swpc,
                 swLeft, swHeld>>

\* case err := <-errChan: on an error MarkUnusable and return it, else
\* return nil; the deferred conn.Close() runs
HandleResult(h) ==
  LET c == hconn[h]
      e == Head(herr[h])
      un == IF e = "err" THEN MarkUnusable(c) ELSE unusable
  IN
  /\ hpc[h] = "piping"
  /\ herr[h] # <<>>
  /\ herr' = [herr EXCEPT ![h] = Tail(@)]
  /\ sawErr' = [sawErr EXCEPT ![c] = @ \/ e = "err"]
  /\ unusable' = un
  /\ ConnClose(c, un)
  /\ hpc' = [hpc EXCEPT ![h] = "done"]
  /\ UNCHANGED <<plCfg, plClosed, plChanClosed, plClose, plAgain, tcPooled, hconn,
                 copy, srvCtxDone, swpc, swLeft, swHeld>>

\* case <-ctx.Done(): return nil; the deferred conn.Close() runs
HandleCancelled(h) ==
  /\ hpc[h] = "piping"
  /\ srvCtxDone
  /\ ConnClose(hconn[h], unusable)
  /\ hpc' = [hpc EXCEPT ![h] = "done"]
  /\ UNCHANGED <<plCfg, plClosed, plChanClosed, plClose, plAgain, tcPooled, unusable,
                 sawErr, hconn, herr, copy, srvCtxDone, swpc, swLeft, swHeld>>

\* the server's root context is cancelled
ServerCancel ==
  /\ ~srvCtxDone
  /\ srvCtxDone' = TRUE
  /\ UNCHANGED <<plCfg, plConns, plClosed, plChanClosed, plClose, plAgain, tcState,
                 tcPooled, unusable, sawErr, hpc, hconn, herr, copy, swpc,
                 swLeft, swHeld>>

\* cleanupIdleConns, case <-ticker.C: return if p.closed, else
\* toCheck := len(p.conns)
SweepStart ==
  /\ swpc = "wait"
  /\ IF plClosed
       THEN swpc' = "exit" /\ UNCHANGED swLeft
       ELSE swpc' = "sweep" /\ swLeft' = Len(plConns)
  /\ UNCHANGED <<plCfg, plConns, plClosed, plChanClosed, plClose, plAgain, tcState,
                 tcPooled, unusable, sawErr, hpc, hconn, herr, copy,
                 srvCtxDone, swHeld>>

\* cleanupIdleConns, case <-p.ctx.Done(): return
SweepExit ==
  /\ swpc = "wait"
  /\ plChanClosed
  /\ swpc' = "exit"
  /\ UNCHANGED <<plCfg, plConns, plClosed, plChanClosed, plClose, plAgain, tcState,
                 tcPooled, unusable, sawErr, hpc, hconn, herr, copy,
                 srvCtxDone, swLeft, swHeld>>

\* one iteration of the toCheck loop up to the receive: case pc := <-p.conns
\* takes a connection out; the default case, or nil from the closed channel,
\* ends the iteration
SweepTake ==
  /\ swpc = "sweep"
  /\ IF swLeft = 0
       THEN swpc' = "wait" /\ UNCHANGED <<swLeft, swHeld, plConns>>
       ELSE IF plConns # <<>>
         THEN /\ swHeld' = Head(plConns)
              /\ plConns' = Tail(plConns)
              /\ swpc' = "hold"
              /\ UNCHANGED swLeft
         ELSE /\ swLeft' = swLeft - 1
              /\ UNCHANGED <<swpc, swHeld, plConns>>
  /\ UNCHANGED <<plCfg, plClosed, plChanClosed, plClose, plAgain, tcState, tcPooled,
                 unusable, sawErr, hpc, hconn, herr, copy, srvCtxDone>>

\* a sweeper that puts every connection back, however long it was idle
SweepPutKeepsIdle(idle) ==
  /\ swpc = "hold"
  /\ IF FALSE
       THEN /\ tcState' = [tcState EXCEPT ![swHeld] = "closed"]
            /\ swpc' = "sweep"
            /\ UNCHANGED plConns
       ELSE IF plChanClosed
         THEN swpc' = "panic" /\ UNCHANGED <<tcState, plConns>>
         ELSE /\ swpc' = "sweep"
              /\ IF PoolHasRoom
                   THEN plConns' = Append(plConns, swHeld) /\ UNCHANGED tcState
                   ELSE /\ tcState' = [tcState EXCEPT ![swHeld] = "closed"]
                        /\ UNCHANGED plConns
  /\ swHeld' = IF swpc' = "panic" THEN swHeld ELSE NoTarget
  /\ swLeft' = IF swpc' = "panic" THEN swLeft ELSE swLeft - 1
  /\ UNCHANGED <<plCfg, plClosed, plChanClosed, plClose, plAgain, tcPooled, unusable,
                 sawErr, hpc, hconn, herr, copy, srvCtxDone>>

\* the rest of the iteration: close a connection idle for longer than
\* idleTimeout, else send it back (closing it if the pool is full); the send
\* panics on the closed channel
SweepPut(idle) ==
  /\ swpc = "hold"
  /\ IF idle
       THEN /\ tcState' = [tcState EXCEPT ![swHeld] = "closed"]
            /\ swpc' = "sweep"
            /\ UNCHANGED plConns
       ELSE IF plChanClosed
         THEN swpc' = "panic" /\ UNCHANGED <<tcState, plConns>>
         ELSE /\ swpc' = "sweep"
              /\ IF PoolHasRoom
                   THEN plConns' = Append(plConns, swHeld) /\ UNCHANGED tcState
                   ELSE /\ tcState' = [tcState EXCEPT ![swHeld] = "closed"]
                        /\ UNCHANGED plConns
  /\ swHeld' = IF swpc' = "panic" THEN swHeld ELSE NoTarget
  /\ swLeft' = IF swpc' = "panic" THEN swLeft ELSE swLeft - 1
  /\ UNCHANGED <<plCfg, plClosed, plChanClosed, plClose, plAgain, tcPooled, unusable,
                 sawErr, hpc, hconn, herr, copy, srvCtxDone>>

\* ConnPool.Close: p.closed = true under p.mu
PoolCloseMark ==
  /\ plClose = "idle"
  /\ plClosed' = TRUE
  /\ plClose' = "marked"
  /\ UNCHANGED <<plAgain, plCfg, plConns, plChanClosed, tcState, tcPooled, unusable,
                 sawErr, hpc, hconn, herr, copy, srvCtxDone, swpc, swLeft,
                 swHeld>>

\* ConnPool.Close: p.cancel(); close(p.conns); every connection left in the
\* channel is closed
PoolCloseDrain ==
  /\ plClose = "marked"
  /\ plChanClosed' = TRUE
  /\ tcState' = [c \in TargetConns |->
                   IF InPool(c) THEN "closed" ELSE tcState[c]]
  /\ plConns' = <<>>
  /\ plClose' = "wait"
  /\ UNCHANGED <<plAgain, plCfg, plClosed, tcPooled, unusable, sawErr, hpc, hconn,
                 herr, copy, srvCtxDone, swpc, swLeft, swHeld>>

\* ConnPool.Close: p.wg.Wait() returns once the sweeper has returned
PoolCloseDone ==
  /\ plClose = "wait"
  /\ swpc = "exit"
  /\ plClose' = "done"
  /\ UNCHANGED <<plAgain, plCfg, plConns, plClosed, plChanClosed, tcState, tcPooled,
                 unusable, sawErr, hpc, hconn, herr, copy, srvCtxDone, swpc,
                 swLeft, swHeld>>

\* a further ConnPool.Close call: p.closed is set, it returns nil at once
PoolCloseAgain ==
  /\ plClosed
  /\ plAgain = "none"
  /\ plAgain' = "nil"
  /\ UNCHANGED <<plCfg, plConns, plClosed, plChanClosed, plClose, tcState,
                 tcPooled, unusable, sawErr, hpc, hconn, herr, copy,
                 srvCtxDone, swpc, swLeft, swHeld>>

\* connpool.New and no handleTCP call yet
InitPoolState ==
  /\ plConns = <<>>
  /\ plClosed = FALSE
  /\ plChanClosed = FALSE
  /\ plClose = "idle"
  /\ plAgain = "none"
  /\ tcState = [c \in TargetConns |-> "none"]
  /\ tcPooled = [c \in TargetConns |-> FALSE]
  /\ unusable = [c \in TargetConns |-> FALSE]
  /\ sawErr = [c \in TargetConns |-> FALSE]
  /\ hpc = [h \in Handlers |-> "idle"]
  /\ hconn = [h \in Handlers |-> NoTarget]
  /\ herr = [h \in Handlers |-> <<>>]
  /\ copy = [h \in Handlers |-> [d \in Dirs |-> "none"]]
  /\ srvCtxDone = FALSE
  /\ swpc = "wait"
  /\ swLeft = 0
  /\ swHeld = NoTarget

InitPoolIdle ==
  /\ plCfg = [Pooling |-> FALSE, Size |-> 1]
  /\ InitPoolState


\* ------------------------- server.go: Server.listen, quic/listen.go: Accept
\* the context the quic Listener watches: context.Background() unless
\* SetContext handed it the root ctx
LCtxDone == lsCtxSet /\ acCtxDone

\* Server.listen, top of the loop: return on ctx.Done(), else call
\* listener.Accept()
LoopCheck ==
  /\ lpc = "check"
  /\ IF acCtxDone
       THEN lpc' = "returned" /\ UNCHANGED timeouts
       ELSE lpc' = "accept" /\ timeouts' = 0
  /\ UNCHANGED <<acCtxDone, lsCtxSet, lsClosed, acRet, spawned, acErrs,
                 lateAccepts>>

\* Accept: l.listener.Accept(acceptCtx) yields a connection, which Accept
\* returns wrapped by newConnWithContext
AcceptConn ==
  /\ lpc = "accept"
  /\ ~lsClosed
  /\ spawned < MaxAccepts
  /\ acRet' = "conn"
  /\ lpc' = "result"
  /\ lateAccepts' = IF acCtxDone THEN lateAccepts + 1 ELSE lateAccepts
  /\ UNCHANGED <<acCtxDone, lsCtxSet, lsClosed, spawned, timeouts, acErrs>>

\* Accept: the 5 s of acceptCtx run out, err == context.DeadlineExceeded
AcceptTimeout ==
  /\ lpc = "accept"
  /\ ~lsClosed
  /\ ~LCtxDone
  /\ timeouts < MaxTimeouts
  /\ timeouts' = timeouts + 1
  /\ lpc' = "timeout"
  /\ UNCHANGED <<acCtxDone, lsCtxSet, lsClosed, acRet, spawned, acErrs,
                 lateAccepts>>

\* a timeout that returns its error to the caller
AcceptAfterTimeoutReturns ==
  /\ lpc = "timeout"
  /\ acRet' = IF LCtxDone THEN "ctxErr" ELSE "err"
  /\ lpc' = "result"
  /\ UNCHANGED <<acCtxDone, lsCtxSet, lsClosed, spawned, timeouts, acErrs,
                 lateAccepts>>

\* Accept, after a timeout: select on ctx.Done() returns ctx.Err(); the
\* default continues the for loop with a new acceptCtx
AcceptAfterTimeout ==
  /\ lpc = "timeout"
  /\ IF LCtxDone
       THEN acRet' = "ctxErr" /\ lpc' = "result"
       ELSE lpc' = "accept" /\ UNCHANGED acRet
  /\ UNCHANGED <<acCtxDone, lsCtxSet, lsClosed, spawned, timeouts, acErrs,
                 lateAccepts>>

\* Accept: any other error of l.listener.Accept is returned as it is: the
\* listener was closed, acceptCtx was cancelled through its parent, or the
\* accept failed
AcceptError ==
  /\ lpc = "accept"
  /\ IF lsClosed \/ LCtxDone
       THEN UNCHANGED acErrs
       ELSE /\ acErrs < MaxAcceptErrs
            /\ acErrs' = acErrs + 1
  /\ acRet' = "err"
  /\ lpc' = "result"
  /\ UNCHANGED <<acCtxDone, lsCtxSet, lsClosed, spawned, timeouts,
                 lateAccepts>>

\* an accept loop that gives up on an error of Accept
LoopResultReturnsOnError ==
  /\ lpc = "result"
  /\ spawned' = IF acRet = "conn" THEN spawned + 1 ELSE spawned
  /\ acRet' = "none"
  /\ lpc' = IF acRet = "conn" THEN "check" ELSE "returned"
  /\ UNCHANGED <<acCtxDone, lsCtxSet, lsClosed, timeouts, acErrs,
                 lateAccepts>>

\* Server.listen, after Accept: log an error and continue, else start the
\* goroutine that runs handleConn
LoopResult ==
  /\ lpc = "result"
  /\ spawned' = IF acRet = "conn" THEN spawned + 1 ELSE spawned
  /\ acRet' = "none"
  /\ lpc' = "check"
  /\ UNCHANGED <<acCtxDone, lsCtxSet, lsClosed, timeouts, acErrs,
                 lateAccepts>>

\* Server.listen's first goroutine: <-ctx.Done(); listener.Close()
ListenerCloser ==
  /\ acCtxDone
  /\ ~lsClosed
  /\ lsClosed' = TRUE
  /\ UNCHANGED <<acCtxDone, lsCtxSet, lpc, acRet, spawned, timeouts, acErrs,
                 lateAccepts>>

\* Server.Start: the signal goroutine calls cancel()
RootCancel ==
  /\ ~acCtxDone
  /\ acCtxDone' = TRUE
  /\ UNCHANGED <<lsCtxSet, lsClosed, lpc, acRet, spawned, timeouts, acErrs,
                 lateAccepts>>

\* Server.listen has just been started
InitAcceptState ==
  /\ acCtxDone = FALSE
  /\ lsClosed = FALSE
  /\ lpc = "check"
  /\ acRet = "none"
  /\ spawned = 0
  /\ timeouts = 0
  /\ acErrs = 0
  /\ lateAccepts = 0

InitAcceptIdle ==
  /\ lsCtxSet = FALSE
  /\ InitAcceptState


\* ------------------------------------------------ PacketConn (part_005)
\* time.Time values a caller hands to SetReadDeadline; 0 is the zero time
Deadlines == 0..MaxClock

\* the timer of a call that loaded d has fired
DeadlineDue(d) == d # 0 /\ clock >= d

\* PacketConn.SetReadDeadline (SetDeadline stores the same value)
SetReadDeadline(t) ==
  /\ readDeadline # t
  /\ readDeadline' = t
  /\ UNCHANGED <<pcCtxDone, rhState, clock, rpc, callDl, rret, frames, reads,
                 shState, wtVars>>

\* time passes
Tick ==
  /\ clock < MaxClock
  /\ clock' = clock + 1
  /\ UNCHANGED <<pcCtxDone, rhState, readDeadline, rpc, callDl, rret, frames,
                 reads,
                 shState, wtVars>>

\* ReadFrom up to its call of c.recvHandle.Read(): load the deadline, arm
\* the timer if it is not zero, and select once, without blocking, on
\* c.ctx.Done() and the timer (byCtx is the choice among two ready cases)
ReadFromStart(byCtx) ==
  /\ rpc # "blocked"
  /\ reads < MaxReads
  /\ reads' = reads + 1
  /\ callDl' = readDeadline
  /\ IF pcCtxDone /\ (byCtx \/ ~DeadlineDue(readDeadline))
       THEN rpc' = "returned" /\ rret' = "ctxErr"
       ELSE IF DeadlineDue(readDeadline)
         THEN rpc' = "returned" /\ rret' = "deadline"
         ELSE rpc' = "blocked" /\ rret' = "none"
  /\ UNCHANGED <<pcCtxDone, rhState, readDeadline, clock, frames,
                 shState, wtVars>>

\* the interface captures a frame for the port
FrameArrives ==
  /\ frames = 0
  /\ rhState # "closed"
  /\ frames' = 1
  /\ UNCHANGED <<pcCtxDone, rhState, readDeadline, clock, rpc, callDl, rret,
                 reads,
                 shState, wtVars>>

\* c.recvHandle.Read() returns a frame and ReadFrom copies it out
ReadFromFrame ==
  /\ rpc = "blocked"
  /\ frames > 0
  /\ rhState # "closed"
  /\ frames' = frames - 1
  /\ rpc' = "returned"
  /\ rret' = "frame"
  /\ UNCHANGED <<pcCtxDone, rhState, readDeadline, clock, callDl, reads,
                 shState, wtVars>>

\* c.recvHandle.Read() fails on the closed handle and ReadFrom returns the
\* error
ReadFromError ==
  /\ rpc = "blocked"
  /\ rhState = "closed"
  /\ rpc' = "returned"
  /\ rret' = "readErr"
  /\ UNCHANGED <<pcCtxDone, rhState, readDeadline, clock, callDl, frames,
                 reads,
                 shState, wtVars>>

\* the context PacketConn.New derived c.ctx from is cancelled
ParentCancel ==
  /\ ~pcCtxDone
  /\ pcCtxDone' = TRUE
  /\ UNCHANGED <<rhState, readDeadline, clock, rpc, callDl, rret, frames,
                 reads,
                 shState, wtVars>>

\* PacketConn.Close: c.cancel(), go c.sendHandle.Close() and
\* go c.recvHandle.Close()
PacketConnClose ==
  /\ rhState = "open"
  /\ pcCtxDone' = TRUE
  /\ rhState' = "closing"
  /\ shState' = "closing"
  /\ UNCHANGED <<readDeadline, clock, rpc, callDl, rret, frames, reads,
                 wtVars>>

\* the goroutine Close started runs RecvHandle.Close
RecvHandleClose ==
  /\ rhState = "closing"
  /\ rhState' = "closed"
  /\ UNCHANGED <<pcCtxDone, readDeadline, clock, rpc, callDl, rret, frames,
                 reads,
                 shState, wtVars>>

\* PacketConn.SetDeadline stores t as both deadlines
SetDeadline(t) ==
  /\ readDeadline # t \/ writeDeadline # t
  /\ readDeadline' = t
  /\ writeDeadline' = t
  /\ UNCHANGED <<pcCtxDone, rhState, clock, rpc, callDl, rret, frames, reads,
                 shState, wtRet, writes>>

\* a WriteTo whose select has no ctx.Done() case
WriteToUnguarded(byCtx, addrOk) ==
  /\ writes < MaxWrites
  /\ writes' = writes + 1
  /\ wtRet' = IF DeadlineDue(writeDeadline) THEN "deadline"
              ELSE IF ~addrOk THEN "badAddr" ELSE "sent"
  /\ UNCHANGED <<pcCtxDone, rhState, readDeadline, clock, rpc, callDl, rret,
                 frames, reads, shState, writeDeadline>>

\* PacketConn.WriteTo: load the deadline, arm the timer if it is not zero,
\* select once on c.ctx.Done() and the timer (byCtx is the choice among two
\* ready cases), then reject an addr that is no *net.UDPAddr, else call
\* c.sendHandle.Write
WriteTo(byCtx, addrOk) ==
  /\ writes < MaxWrites
  /\ writes' = writes + 1
  /\ wtRet' = IF pcCtxDone /\ (byCtx \/ ~DeadlineDue(writeDeadline))
                THEN "ctxErr"
              ELSE IF DeadlineDue(writeDeadline) THEN "deadline"
              ELSE IF ~addrOk THEN "badAddr" ELSE "sent"
  /\ UNCHANGED <<pcCtxDone, rhState, readDeadline, clock, rpc, callDl, rret,
                 frames, reads, shState, writeDeadline>>

\* the goroutine Close started runs SendHandle.Close
SendHandleClose ==
  /\ shState = "closing"
  /\ shState' = "closed"
  /\ UNCHANGED <<pcCtxDone, rhState, readDeadline, clock, rpc, callDl, rret,
                 frames, reads, wtVars>>

\* socket.New has returned the PacketConn; no deadline is set
InitPacketConn ==
  /\ pcCtxDone = FALSE
  /\ rhState = "open"
  /\ readDeadline = 0
  /\ clock = 0
  /\ rpc = "idle"
  /\ callDl = 0
  /\ rret = "none"
  /\ frames = 0
  /\ reads = 0
  /\ shState = "open"
  /\ writeDeadline = 0
  /\ wtRet = "none"
  /\ writes = 0

\* no function call is being looked at
InitCallIdle ==
  /\ callArgs = <<>>
  /\ callRes = <<>>

\* NewSendHandle: make([]byte, 8) for both timestamp options; no worker is
\* building a header
InitOptions ==
  /\ optData = [syn |-> <<U32FromInt(0), U32FromInt(0)>>,
                ack |-> <<U32FromInt(0), U32FromInt(0)>>]
  /\ bld = <<>>

InitRestIdle ==
  /\ InitClientIdle
  /\ InitPoolIdle
  /\ InitAcceptIdle
  /\ InitPacketConn
  /\ InitCallIdle
  /\ InitOptions

\* ------------------------------ send_handle.go: SendHandle.calculateBackoff
RECURSIVE Pow2(_)
Pow2(n) == IF n <= 0 THEN 1 ELSE 2 * Pow2(n - 1)

\* rand.Float64() as the fraction k / JitterDen, 0 <= k < JitterDen
JitterDen == 1000
Jitters == {0, 1, 500, 999}

\* cfg.PCAP.InitialBackoff and cfg.PCAP.MaxBackoff
BackoffCfgs == {[initial |-> 100, max |-> 10000],
                [initial |-> 10, max |-> 1000],
                [initial |-> 1, max |-> 1],
                [initial |-> 7, max |-> 60000]}

\* the base with the exponent off by one
BackoffBaseDoubled(initial, max, n) ==
  IF initial * Pow2(n) > max THEN max ELSE initial * Pow2(n)

\* backoffMs before the jitter: InitialBackoff * 2^(n-1) for retry n, capped at
\* MaxBackoff
BackoffBase(initial, max, n) ==
  IF initial * Pow2(n - 1) > max
    THEN max
    ELSE initial * Pow2(n - 1)

\* calculateBackoff in milliseconds: time.Duration(backoffMs + jitter)
\* truncates the sum, jitter = backoffMs * 0.2 * k / JitterDen
calculateBackoff(initial, max, n, k) ==
  LET b == BackoffBase(initial, max, n) IN
  (b * 5 * JitterDen + b * k) \div (5 * JitterDen)

CalcBackoff ==
  /\ callRes = <<>>
  /\ callRes' = <<calculateBackoff(callArgs.cfg.initial, callArgs.cfg.max,
                                   callArgs.retries, callArgs.k)>>
  /\ UNCHANGED callArgs

\* ------------------------------- send_handle.go: SendHandle.setClientTCPF
\* destinations as <<IP, port>>; hash.IPAddr maps each to its own map key
TCPFDests == {<<1, 8080>>, <<1, 8081>>, <<2, 8080>>}

\* what a caller can pass as addr net.Addr: the nil interface, a nil
\* *net.UDPAddr, an address of another type, or a *net.UDPAddr
AddrArgs ==
  {[kind |-> k, ip |-> 0, port |-> 0] : k \in {"nil", "nilUDPAddr", "TCPAddr"}}
  \cup {[kind |-> "UDPAddr", ip |-> d[1], port |-> d[2]] : d \in TCPFDests}

\* hash.IPAddr(a.IP, uint16(a.Port))
AddrKey(addr) == <<addr.ip, addr.port>>

\* h.tcpF.clientTCPF before the call: some destinations with an override
OverrideMaps ==
  UNION {[ds -> {<<PA, A>>}] : ds \in SUBSET TCPFDests}

\* a := *addr.(*net.UDPAddr) panics unless addr holds a non-nil *net.UDPAddr
AddrPanics(addr) == addr.kind # "UDPAddr"

\* clientTCPF[key] = &iterator.Iterator{Items: f}
MapStore(m, k, f) ==
  [d \in (DOMAIN m) \cup {k} |-> IF d = k THEN f ELSE m[d]]

\* setClientTCPF: the type assertion and dereference, then the store under
\* h.tcpF.mu
setClientTCPF(m, addr, f) ==
  IF AddrPanics(addr)
    THEN [panic |-> TRUE, map |-> m]
    ELSE [panic |-> FALSE, map |-> MapStore(m, AddrKey(addr), f)]

SetClientTCPF ==
  /\ callRes = <<>>
  /\ callRes' = <<setClientTCPF(callArgs.map, callArgs.addr, callArgs.f)>>
  /\ UNCHANGED callArgs

\* ------------------------------------- PacketConn.LocalAddr (part_005)
IPv4zero == <<0, 0, 0, 0>>

\* conf.Addr.Addr: nil (set = FALSE) or a *net.UDPAddr
NoAddr == [set |-> FALSE, ip |-> <<>>, port |-> 0, zone |-> ""]

UDPAddrs(ips) ==
  {[set |-> TRUE, ip |-> i, port |-> q, zone |-> z] :
     i \in ips, q \in {8888, 9999}, z \in {"", "eth0"}}

IPv4Addrs == UDPAddrs({<<10, 0, 0, 1>>})
IPv6Addrs == UDPAddrs({<<0, 0, 0, 0, 0, 0, 0, 0, 0, 0, 0, 0, 0, 0, 0, 1>>})

\* c.cfg: nil, or a conf.Network with its IPv4, IPv6 and Port fields
NetworkCfgs ==
  {[isNil |-> TRUE, IPv4 |-> NoAddr, IPv6 |-> NoAddr, Port |-> 0]}
  \cup [isNil : {FALSE}, IPv4 : {NoAddr} \cup IPv4Addrs,
        IPv6 : {NoAddr} \cup IPv6Addrs, Port : {0, 7777, 9999}]

\* append([]byte(nil), ip...)
CopyBytes(ip) == [i \in 1..Len(ip) |-> ip[i]]

\* &net.UDPAddr{IP: copy of a.IP, Port: a.Port, Zone: a.Zone}
AddrCopy(a) ==
  [isNil |-> FALSE, ip |-> CopyBytes(a.ip), port |-> a.port, zone |-> a.zone]

\* LocalAddr that looks at IPv6 before IPv4
LocalAddrIPv6First(c) ==
  IF c.isNil THEN [isNil |-> FALSE, ip |-> IPv4zero, port |-> 0, zone |-> ""]
  ELSE IF c.IPv6.set THEN AddrCopy(c.IPv6)
  ELSE IF c.IPv4.set THEN AddrCopy(c.IPv4)
  ELSE [isNil |-> FALSE, ip |-> IPv4zero, port |-> c.Port, zone |-> ""]

\* PacketConn.LocalAddr
LocalAddr(c) ==
  IF c.isNil THEN [isNil |-> FALSE, ip |-> IPv4zero, port |-> 0, zone |-> ""]
  ELSE IF c.IPv4.set THEN AddrCopy(c.IPv4)
  ELSE IF c.IPv6.set THEN AddrCopy(c.IPv6)
  ELSE [isNil |-> FALSE, ip |-> IPv4zero, port |-> c.Port, zone |-> ""]

CallLocalAddr ==
  /\ callRes = <<>>
  /\ callRes' = <<LocalAddr(callArgs)>>
  /\ UNCHANGED callArgs

\* --------------------- Performance defaults and server.New (performance.go)
Roles == {"client", "server"}

\* conf.Performance as read from the file: fields left out read as zero
PerformanceCfgs ==
  [MaxConcurrentStreams : {-1, 0, 1, 100, 5000, 10000},
   TCPConnectionPoolSize : {0, 50},
   EnableConnectionPooling : BOOLEAN,
   MaxRetryAttempts : {0, 3}]

\* Performance.setDefaults(role): every zero field takes its default
PerformanceSetDefaults(p, role) ==
  [p EXCEPT
     !.MaxConcurrentStreams =
        IF @ = 0 THEN (IF role = "server" THEN 10000 ELSE 5000) ELSE @,
     !.TCPConnectionPoolSize = IF @ = 0 THEN 100 ELSE @,
     !.MaxRetryAttempts = IF @ = 0 THEN 5 ELSE @]

\* Performance.validate: TRUE when it returns no error
PerformanceValid(p) ==
  /\ p.MaxConcurrentStreams >= 0
  /\ p.TCPConnectionPoolSize >= 0 /\ p.TCPConnectionPoolSize <= 10000
  /\ p.MaxRetryAttempts >= 0 /\ p.MaxRetryAttempts <= 20

\* a nil chan struct{}
NoSemaphore == [isNil |-> TRUE, cap |-> 0]

\* server.New: the semaphore is made only for a positive limit
ServerNew(p) ==
  [streamSemaphore |->
     IF p.MaxConcurrentStreams > 0
       THEN [isNil |-> FALSE, cap |-> p.MaxConcurrentStreams]
       ELSE NoSemaphore,
   connPools |-> p.EnableConnectionPooling]

\* defaults, validation, then construction of the server
LoadAndNew(p, role) ==
  LET q == PerformanceSetDefaults(p, role) IN
    IF PerformanceValid(q)
      THEN [err |-> FALSE, cfg |-> q, server |-> ServerNew(q)]
      ELSE [err |-> TRUE, cfg |-> q,
            server |-> [streamSemaphore |-> NoSemaphore, connPools |-> FALSE]]

CallLoadAndNew ==
  /\ callRes = <<>>
  /\ callRes' = <<LoadAndNew(callArgs.perf, callArgs.role)>>
  /\ UNCHANGED callArgs

\* ------------------------------------- framers (part_012, framing/fixed.go)
\* (minSize, maxSize) arguments handed to the constructors
FramerArgs ==
  {<<0, 0>>, <<10, 20>>, <<64, 64>>, <<64, 65>>, <<100, 200>>,
   <<1401, 1000>>, <<2000, 100>>}

\* len(data) of the byte strings framed
DataLens == {0, 1, 64, 65, 66, 129, 130, 200, 201, 450, 1401, 1402, 1500}

\* values cryptoRandUint32 returns: v itself, or 2^32 - v when top is set
RandVals ==
  {[top |-> FALSE, v |-> n] : n \in {0, 1, 63, 1336}}
  \cup {[top |-> TRUE, v |-> n] : n \in {1, 600}}

\* 2^32 % s, for 0 < s < 46341
TwoTo32Mod(s) == LET h == 65536 % s IN (h * h) % s

\* r % uint32(d) for d = maxSize - minSize + 1, d # 0: a negative d converts
\* to 2^32 + d; huge marks a result of 2^31 or more
RandMod(r, d) ==
  IF d > 0
    THEN [huge |-> FALSE,
          v |-> IF r.top THEN (TwoTo32Mod(d) + d - (r.v % d)) % d
                ELSE r.v % d]
  ELSE IF ~r.top THEN [huge |-> FALSE, v |-> r.v]
  ELSE IF r.v > -d THEN [huge |-> TRUE, v |-> 0]
  ELSE [huge |-> FALSE, v |-> (-d) - r.v]

\* the draws of one Frame call: a pattern of MaxDraws values, repeated
RandPatterns == [1..MaxDraws -> RandVals]

\* a byte string of length n whose bytes tell their position
DataOf(n) == [i \in 1..n |-> (i * 7) % 256]

\* NewFixedFramer: the arguments are stored as given
NewFixedFramer(minSize, maxSize) ==
  [name |-> "fixed", minSize |-> minSize, maxSize |-> maxSize]

\* NewRandomFramer: minSize is raised to 64, a maxSize below it becomes 1400
NewRandomFramer(minSize, maxSize) ==
  LET mn == IF minSize < 64 THEN 64 ELSE minSize
      mx == IF maxSize < mn THEN 1400 ELSE maxSize
  IN [name |-> "random", minSize |-> mn, maxSize |-> mx]

\* FixedFramer.Frame: the data as a single frame
FixedFrame(data) == [panic |-> FALSE, done |-> TRUE, frames |-> <<data>>]

\* the loop of RandomFramer.Frame from offset on; draw counts the random
\* values used so far, fuel the iterations still allowed
RECURSIVE RandomFrameLoop(_, _, _, _, _, _, _)
RandomFrameLoop(f, data, rands, offset, draw, out, fuel) ==
  IF offset >= Len(data)
    THEN [panic |-> FALSE, done |-> TRUE, frames |-> out]
  ELSE IF fuel = 0
    THEN [panic |-> FALSE, done |-> FALSE, frames |-> out]
  ELSE
    LET remaining == Len(data) - offset
        span == f.maxSize - f.minSize + 1
    IN IF remaining <= f.maxSize
         THEN RandomFrameLoop(f, data, rands, offset + remaining, draw,
                Append(out, SubSeq(data, offset + 1, offset + remaining)),
                fuel - 1)
       ELSE IF span = 0
         THEN [panic |-> TRUE, done |-> FALSE, frames |-> out]
       ELSE
         LET r == RandMod(rands[(draw % Len(rands)) + 1], span)
             frameSize == IF r.huge \/ f.minSize + r.v > remaining
                            THEN remaining ELSE f.minSize + r.v
         IN RandomFrameLoop(f, data, rands, offset + frameSize, draw + 1,
              Append(out, SubSeq(data, offset + 1, offset + frameSize)),
              fuel - 1)

\* RandomFramer.Frame
RandomFrame(f, data, rands) ==
  IF Len(data) = 0
    THEN [panic |-> FALSE, done |-> TRUE, frames |-> <<>>]
  ELSE IF Len(data) <= f.minSize
    THEN [panic |-> FALSE, done |-> TRUE, frames |-> <<data>>]
  ELSE RandomFrameLoop(f, data, rands, 0, 0, <<>>, Len(data))

Frame(f, data, rands) ==
  IF f.name = "fixed" THEN FixedFrame(data) ELSE RandomFrame(f, data, rands)

\* the copy loop of Coalesce: each frame is copied at the running offset
RECURSIVE CopyFrames(_, _)
CopyFrames(fs, i) ==
  IF i > Len(fs) THEN <<>>
  ELSE fs[i] \o CopyFrames(fs, i + 1)

\* Coalesce (the same code in both framers)
Coalesce(fs) ==
  IF Len(fs) = 0 THEN <<>>
  ELSE IF Len(fs) = 1 THEN fs[1]
  ELSE CopyFrames(fs, 1)

CallFrame ==
  /\ callRes = <<>>
  /\ callRes' = <<Frame(callArgs.framer, callArgs.data, callArgs.rands)>>
  /\ UNCHANGED callArgs

\* ------------------------------------------------ PCAP.validate (part_015)
\* conf.PCAP values handed to validate, in and around each limit
PCAPCfgs ==
  [Sockbuf : {512, 4194304},
   SendQueueSize : {0, 1, 1000, 100000, 100001},
   MaxRetries : {-1, 0, 3, 10, 11},
   InitialBackoff : {0, 1, 10, 1000, 1001},
   MaxBackoff : {0, 1, 9, 10, 1000, 60000, 60001}]

\* the four errors about the send queue and its retries
SendQueueErrors ==
  {"send_queue_size", "max_retries", "initial_backoff_ms", "max_backoff_ms"}

\* validate that takes max_retries from 1 on
PCAPValidateRetriesFromOne(p) ==
  {e \in {"sockbuf_small", "sockbuf_large"} \cup SendQueueErrors :
     \/ e = "sockbuf_small" /\ p.Sockbuf < 1024
     \/ e = "sockbuf_large" /\ p.Sockbuf > 100 * 1024 * 1024
     \/ e = "send_queue_size"
          /\ (p.SendQueueSize < 1 \/ p.SendQueueSize > 100000)
     \/ e = "max_retries" /\ (p.MaxRetries < 1 \/ p.MaxRetries > 10)
     \/ e = "initial_backoff_ms"
          /\ (p.InitialBackoff < 1 \/ p.InitialBackoff > 1000)
     \/ e = "max_backoff_ms"
          /\ (p.MaxBackoff < p.InitialBackoff \/ p.MaxBackoff > 60000)}

\* PCAP.validate: the errors it appends
PCAPValidate(p) ==
  {e \in {"sockbuf_small", "sockbuf_large"} \cup SendQueueErrors :
     \/ e = "sockbuf_small" /\ p.Sockbuf < 1024
     \/ e = "sockbuf_large" /\ p.Sockbuf > 100 * 1024 * 1024
     \/ e = "send_queue_size"
          /\ (p.SendQueueSize < 1 \/ p.SendQueueSize > 100000)
     \/ e = "max_retries" /\ (p.MaxRetries < 0 \/ p.MaxRetries > 10)
     \/ e = "initial_backoff_ms"
          /\ (p.InitialBackoff < 1 \/ p.InitialBackoff > 1000)
     \/ e = "max_backoff_ms"
          /\ (p.MaxBackoff < p.InitialBackoff \/ p.MaxBackoff > 60000)}

CallPCAPValidate ==
  /\ callRes = <<>>
  /\ callRes' = <<PCAPValidate(callArgs)>>
  /\ UNCHANGED callArgs

\* --------------- the timestamp option bytes of concurrent executeWrite calls
\* cfg.Performance.PacketWorkers: the processQueue goroutines started
BuilderCounts == {1, 2}

\* flag profiles getClientTCPF hands to buildTCPHeader
BuildFlags == {S, PA, A}

\* the options slice a header with flags f points at
OptionsOf(f) == IF "SYN" \in f THEN "syn" ELSE "ack"

IdleBuilder ==
  [pc |-> "idle", opts |-> "ack", tsVal |-> U32FromInt(0),
   tsEcr |-> U32FromInt(0), outVal |-> U32FromInt(0),
   outEcr |-> U32FromInt(0), built |-> 0]

\* buildTCPHeader up to the computation of tsVal and tsEcr: the counter is
\* taken with atomic.AddUint32, the values are locals of the call
BuildStart(w, f) ==
  /\ bld[w].pc \in {"idle", "sent"}
  /\ bld[w].built < MaxBuilds
  /\ tsCounter' = Add32(tsCounter, U32FromInt(1))
  /\ LET tsVal == tsValOf(bootTime, tsCounter')
     IN bld' = [bld EXCEPT ![w] =
                  [@ EXCEPT !.pc = "putVal", !.opts = OptionsOf(f),
                            !.tsVal = tsVal,
                            !.tsEcr = tsEcrOf(tsVal, tsCounter', f)]]
  /\ UNCHANGED <<optData, bootTime, tcpFIndex, wire, observed, emits>>

\* binary.BigEndian.PutUint32(h.xOptions[2].OptionData[0:4], tsVal): the
\* write goes to the handle's own slice, without a lock
PutTSval(w) ==
  /\ bld[w].pc = "putVal"
  /\ optData' = [optData EXCEPT ![bld[w].opts][1] = bld[w].tsVal]
  /\ bld' = [bld EXCEPT ![w].pc = "putEcr"]
  /\ UNCHANGED tcpVars

\* PutUint32(h.xOptions[2].OptionData[4:8], ...), then tcp.Options =
\* h.xOptions: the header shares the handle's OptionData
PutTSecr(w) ==
  /\ bld[w].pc = "putEcr"
  /\ optData' = [optData EXCEPT ![bld[w].opts][2] = bld[w].tsEcr]
  /\ bld' = [bld EXCEPT ![w].pc = "readVal"]
  /\ UNCHANGED tcpVars

\* gopacket.SerializeLayers copies tcp.Options[2].OptionData into the
\* buffer; the copy is not atomic, the two fields are read one by one
SerializeTSval(w) ==
  /\ bld[w].pc = "readVal"
  /\ bld' = [bld EXCEPT ![w].pc = "readEcr",
                        ![w].outVal = optData[bld[w].opts][1]]
  /\ UNCHANGED <<optData, tcpVars>>

SerializeTSecr(w) ==
  /\ bld[w].pc = "readEcr"
  /\ bld' = [bld EXCEPT ![w].pc = "sent",
                        ![w].outEcr = optData[bld[w].opts][2],
                        ![w].built = @ + 1]
  /\ UNCHANGED <<optData, tcpVars>>

\* ------------------------------- send_handle.go: SendHandle.getClientTCPF
\* the flag lists an override can be installed with, the empty one included
OverrideLists == LocalFlagLists \cup {<<>>}

\* h.tcpF: the default iterator (its Items and index) and clientTCPF, the
\* map from hash.IPAddr(ip, port) to that destination's own iterator
NewTCPF(lf) ==
  [tcpF |-> [Items |-> lf, index |-> 0], clientTCPF |-> <<>>]

\* Iterator.Next on a value [Items, index]: the zero TCPF of an empty
\* iterator, whose index stays, else the element after advancing the index
NextOf(it) ==
  IF Len(it.Items) = 0
    THEN [f |-> {}, it |-> it]
    ELSE [f |-> IteratorNext(it.Items, it.index),
          it |-> [it EXCEPT !.index = IteratorNextIndex(it.index)]]

\* a selection that draws from the default iterator as well as the override
getClientTCPFAlsoDefault(t, dst) ==
  IF dst \in DOMAIN t.clientTCPF
    THEN LET r == NextOf(t.clientTCPF[dst]) IN
         [f |-> r.f,
          t |-> [tcpF |-> NextOf(t.tcpF).it,
                 clientTCPF |-> MapStore(t.clientTCPF, dst, r.it)]]
    ELSE LET r == NextOf(t.tcpF) IN
         [f |-> r.f, t |-> [t EXCEPT !.tcpF = r.it]]

\* getClientTCPF: ff.Next() of the destination's iterator when the map holds
\* one, else h.tcpF.tcpF.Next()
getClientTCPF(t, dst) ==
  IF dst \in DOMAIN t.clientTCPF
    THEN LET r == NextOf(t.clientTCPF[dst]) IN
         [f |-> r.f,
          t |-> [t EXCEPT !.clientTCPF = MapStore(t.clientTCPF, dst, r.it)]]
    ELSE LET r == NextOf(t.tcpF) IN
         [f |-> r.f, t |-> [t EXCEPT !.tcpF = r.it]]

\* one executeWrite selecting the flags for dst; callRes keeps the
\* destination and the profile returned
SelectTCPF(dst) ==
  /\ LET it == IF dst \in DOMAIN callArgs.clientTCPF
                 THEN callArgs.clientTCPF[dst] ELSE callArgs.tcpF
     IN it.index < MaxFlagDraws
  /\ LET r == getClientTCPF(callArgs, dst) IN
       /\ callArgs' = r.t
       /\ callRes' = <<[dst |-> dst, f |-> r.f]>>

\* setClientTCPF for dst: a fresh iterator over f replaces the entry
InstallTCPF(dst, f) ==
  /\ callArgs' =
       [callArgs EXCEPT !.clientTCPF =
          MapStore(callArgs.clientTCPF, dst, [Items |-> f, index |-> 0])]
  /\ callArgs' # callArgs
  /\ UNCHANGED callRes

\* ------------------------------------ dial.go: Client.newStrmWithRetry
\* cfg.Performance as the retry code reads it
RetryCfgs ==
  [MaxRetryAttempts : {-1, 0, 1, 3, 5, 7},
   RetryInitialBackoffMs : {-1, 0, 10, 100, 3000, 10000},
   RetryMaxBackoffMs : {-5, 0, 100, 10000, 60000}]

\* the backoff with the exponent one too high
calculateRetryBackoffDoubled(c, attempt) ==
  LET initialBackoff == IF c.RetryInitialBackoffMs <= 0
                          THEN 100 ELSE c.RetryInitialBackoffMs
      maxBackoff == IF c.RetryMaxBackoffMs <= 0
                      THEN 10000 ELSE c.RetryMaxBackoffMs
      backoffMs == initialBackoff * Pow2(attempt + 1)
  IN IF backoffMs > maxBackoff THEN maxBackoff ELSE backoffMs

\* calculateRetryBackoff(attempt) in milliseconds: the defaults for values
\* <= 0, initialBackoff * 2^attempt, capped at maxBackoff
calculateRetryBackoff(c, attempt) ==
  LET initialBackoff == IF c.RetryInitialBackoffMs <= 0
                          THEN 100 ELSE c.RetryInitialBackoffMs
      maxBackoff == IF c.RetryMaxBackoffMs <= 0
                      THEN 10000 ELSE c.RetryMaxBackoffMs
      backoffMs == initialBackoff * Pow2(attempt)
  IN IF backoffMs > maxBackoff THEN maxBackoff ELSE backoffMs

\* newStrmWithRetry(attempt) when the first `failing` attempts fail (newConn
\* or OpenStrm returns an error): the error after maxAttempts attempts, else
\* time.Sleep(backoff) and the next attempt; slept lists the sleeps in order
RECURSIVE newStrmWithRetry(_, _, _, _)
newStrmWithRetry(c, attempt, failing, slept) ==
  IF attempt >= MaxAttemptsOf(c.MaxRetryAttempts)
    THEN [ret |-> "error", slept |-> slept]
  ELSE IF attempt < failing
    THEN newStrmWithRetry(c, attempt + 1, failing,
                          Append(slept, calculateRetryBackoff(c, attempt)))
    ELSE [ret |-> "strm", slept |-> slept]

\* newStrm: return c.newStrmWithRetry(0)
CallNewStrm ==
  /\ callRes = <<>>
  /\ callRes' = <<newStrmWithRetry(callArgs.cfg, 0, callArgs.failing, <<>>)>>
  /\ UNCHANGED callArgs

\* --------------------------------- successive buildTCPHeader calls (TSval)
\* h.time = uint32(UnixNano / 1e6): any 32-bit value, the top ones included
HandleTimes ==
  {<<0, 0>>, <<0, 1000>>, <<0, 65535>>, <<32767, 65535>>, <<65535, 65530>>,
   <<65535, 65535>>}

\* h.tsCounter of a new handle, and of one that has built 2^32 - 9 headers
CounterStarts == {<<0, 0>>, <<65535, 65527>>}

\* x <= y as unsigned 32-bit numbers
Le32(x, y) == x[1] < y[1] \/ (x[1] = y[1] /\ x[2] <= y[2])

\* one more buildTCPHeader: atomic.AddUint32(&h.tsCounter, 1), then the
\* header from h.time and the new counter; callArgs counts the headers built
BuildHeader(f) ==
  /\ callArgs < MaxHeaders
  /\ callArgs' = callArgs + 1
  /\ tsCounter' = Add32(tsCounter, U32FromInt(1))
  /\ callRes' = <<buildTCPHeader(bootTime, tsCounter', f, 1)>>
  /\ UNCHANGED <<bootTime, tcpFIndex, wire, observed, emits>>

\* ------------------------------------------------ obfs: the obfuscators
\* A []byte is written as its leading bytes followed by runs of bytes taken
\* from a named source: [src, off, n] is n bytes of src from offset off on.
\* The caller's payload is the source "data", random padding is "pad".
NoBytes == [head |-> <<>>, tail |-> <<>>]

ByteOf(src, off) == (off * 31 + (IF src = "data" THEN 7 ELSE 13)) % 256

RECURSIVE RunsLen(_)
RunsLen(t) == IF t = <<>> THEN 0 ELSE Head(t).n + RunsLen(Tail(t))

\* len(b)
BufLen(b) == Len(b.head) + RunsLen(b.tail)

\* the runs of t without the first k bytes
RECURSIVE DropRuns(_, _)
DropRuns(t, k) ==
  IF t = <<>> THEN <<>>
  ELSE IF k = 0 THEN t
  ELSE IF k >= Head(t).n THEN DropRuns(Tail(t), k - Head(t).n)
  ELSE <<[src |-> Head(t).src, off |-> Head(t).off + k, n |-> Head(t).n - k]>>
       \o Tail(t)

\* the first k bytes of the runs of t
RECURSIVE TakeRuns(_, _)
TakeRuns(t, k) ==
  IF t = <<>> \/ k = 0 THEN <<>>
  ELSE IF k >= Head(t).n THEN <<Head(t)>> \o TakeRuns(Tail(t), k - Head(t).n)
  ELSE <<[src |-> Head(t).src, off |-> Head(t).off, n |-> k]>>

\* b[k:]
DropBytes(b, k) ==
  IF k <= Len(b.head)
    THEN [head |-> SubSeq(b.head, k + 1, Len(b.head)), tail |-> b.tail]
    ELSE [head |-> <<>>, tail |-> DropRuns(b.tail, k - Len(b.head))]

\* b[:k]
TakeBytes(b, k) ==
  IF k <= Len(b.head)
    THEN [head |-> SubSeq(b.head, 1, k), tail |-> <<>>]
    ELSE [head |-> b.head, tail |-> TakeRuns(b.tail, k - Len(b.head))]

\* b[from:to]
Slice(b, from, to) == TakeBytes(DropBytes(b, from), to - from)

\* b[i]
ByteAt(b, i) ==
  IF i < Len(b.head) THEN b.head[i + 1]
  ELSE LET r == Head(DropRuns(b.tail, i - Len(b.head))) IN ByteOf(r.src, r.off)

\* n bytes of the source src
RunOf(src, n) == IF n = 0 THEN <<>> ELSE <<[src |-> src, off |-> 0, n |-> n]>>

\* a payload of n bytes
PayloadOf(n) == [head |-> <<>>, tail |-> RunOf("data", n)]

\* a ^ b on bytes
RECURSIVE BitXor(_, _)
BitXor(a, b) ==
  IF a = 0 THEN b
  ELSE IF b = 0 THEN a
  ELSE ((a + b) % 2) + 2 * BitXor(a \div 2, b \div 2)

\* binary.BigEndian.Uint16 of the bytes hi, lo
Uint16(hi, lo) == hi * 256 + lo

\* NewNoneObfuscator, NewPaddingObfuscator (nil when the key has fewer than
\* 2 bytes), NewTLSRecordObfuscator
NewObfuscator(name, key) ==
  IF name = "padding"
    THEN IF Len(key) < 2 THEN [name |-> "nil"]
         ELSE [name |-> "padding", key |-> key, minPad |-> 16, maxPad |-> 128]
  ELSE IF name = "tls" THEN [name |-> "tls", key |-> key]
  ELSE [name |-> "none"]

tlsRecordTypeApplicationData == 23
tlsRecordHeaderSize == 5
tlsMaxRecordSize == 16384

\* PaddingObfuscator.Wrap: 2 length bytes XORed with the key, the data,
\* minPad + rand % (maxPad - minPad + 1) bytes of padding
PaddingWrap(o, data, r) ==
  LET dataLen == BufLen(data)
      padLen == IF o.maxPad > o.minPad
                  THEN o.minPad + RandMod(r, o.maxPad - o.minPad + 1).v
                  ELSE o.minPad
  IN IF dataLen > 65535
       THEN [err |-> "ErrBufferTooSmall", buf |-> NoBytes]
       ELSE [err |-> "nil",
             buf |-> [head |-> <<BitXor(dataLen \div 256, o.key[1]),
                                 BitXor(dataLen % 256, o.key[2])>>,
                      tail |-> data.tail \o RunOf("pad", padLen)]]

\* an Unwrap that returns the padding along with the data
PaddingUnwrapKeepsPadding(o, data) ==
  IF BufLen(data) < 2 THEN [err |-> "ErrInvalidData", buf |-> NoBytes]
  ELSE LET dataLen == Uint16(BitXor(ByteAt(data, 0), o.key[1]),
                             BitXor(ByteAt(data, 1), o.key[2]))
       IN IF 2 + dataLen > BufLen(data)
            THEN [err |-> "ErrInvalidData", buf |-> NoBytes]
            ELSE [err |-> "nil", buf |-> Slice(data, 2, BufLen(data))]

\* PaddingObfuscator.Unwrap
PaddingUnwrap(o, data) ==
  IF BufLen(data) < 2 THEN [err |-> "ErrInvalidData", buf |-> NoBytes]
  ELSE LET dataLen == Uint16(BitXor(ByteAt(data, 0), o.key[1]),
                             BitXor(ByteAt(data, 1), o.key[2]))
       IN IF 2 + dataLen > BufLen(data)
            THEN [err |-> "ErrInvalidData", buf |-> NoBytes]
            ELSE [err |-> "nil", buf |-> Slice(data, 2, 2 + dataLen)]

\* TLSRecordObfuscator.wrapWithLength: the 5-byte record header, the data
\* length (XORed with the key when it has 2 bytes), the data, rand % 16
\* bytes of padding cut to what the record can hold
wrapWithLength(o, data, r) ==
  LET dataLen == BufLen(data)
      drawn == RandMod(r, 16).v
      padLen == IF dataLen + 2 + drawn > tlsMaxRecordSize
                  THEN tlsMaxRecordSize - dataLen - 2 ELSE drawn
      totalDataLen == 2 + dataLen + padLen
      hi == IF Len(o.key) >= 2 THEN BitXor(dataLen \div 256, o.key[1])
                               ELSE dataLen \div 256
      lo == IF Len(o.key) >= 2 THEN BitXor(dataLen % 256, o.key[2])
                               ELSE dataLen % 256
  IN IF dataLen + 2 > tlsMaxRecordSize
       THEN [err |-> "ErrBufferTooSmall", buf |-> NoBytes]
       ELSE [err |-> "nil",
             buf |-> [head |-> <<tlsRecordTypeApplicationData, 3, 3,
                                 (totalDataLen \div 256) % 256,
                                 totalDataLen % 256, hi, lo>>,
                      tail |-> data.tail \o RunOf("pad", padLen)]]

\* TLSRecordObfuscator.Unwrap
TLSUnwrap(o, data) ==
  LET bad == [err |-> "ErrInvalidData", buf |-> NoBytes] IN
  IF BufLen(data) < tlsRecordHeaderSize THEN bad
  ELSE IF ByteAt(data, 0) # tlsRecordTypeApplicationData THEN bad
  ELSE IF Uint16(ByteAt(data, 1), ByteAt(data, 2)) # 771 THEN bad
  ELSE LET recordLen == Uint16(ByteAt(data, 3), ByteAt(data, 4)) IN
       IF recordLen > BufLen(data) - tlsRecordHeaderSize THEN bad
       ELSE LET payload == Slice(data, tlsRecordHeaderSize,
                                 tlsRecordHeaderSize + recordLen)
            IN IF BufLen(payload) < 2 THEN bad
               ELSE LET raw == Uint16(ByteAt(payload, 0), ByteAt(payload, 1))
                        actualLen ==
                          IF Len(o.key) >= 2
                            THEN Uint16(BitXor(ByteAt(payload, 0), o.key[1]),
                                        BitXor(ByteAt(payload, 1), o.key[2]))
                            ELSE raw
                    IN IF actualLen > BufLen(payload) - 2 THEN bad
                       ELSE [err |-> "nil",
                             buf |-> Slice(payload, 2, 2 + actualLen)]

\* Obfuscator.Wrap of the three implementations
Wrap(o, data, r) ==
  IF o.name = "padding" THEN PaddingWrap(o, data, r)
  ELSE IF o.name = "tls" THEN wrapWithLength(o, data, r)
  ELSE [err |-> "nil", buf |-> data]

\* Obfuscator.Unwrap
Unwrap(o, data) ==
  IF o.name = "padding" THEN PaddingUnwrap(o, data)
  ELSE IF o.name = "tls" THEN TLSUnwrap(o, data)
  ELSE [err |-> "nil", buf |-> data]

\* Obfuscator.Overhead
Overhead(o) ==
  IF o.name = "padding" THEN 2 + o.maxPad
  ELSE IF o.name = "tls" THEN tlsRecordHeaderSize + 2 + 15
  ELSE 0

\* payload lengths, keys and random draws of the obfuscator calls
ObfsLens == {0, 1, 2, 300, 16370, 16381, 16382, 16383, 65535, 65536}
ObfsKeys == {<<>>, <<7>>, <<0, 0>>, <<171, 205>>, <<255, 255, 9>>}
ObfsRands == RandVals \cup {[top |-> FALSE, v |-> 112]}

\* how much of the wrapped bytes reaches Unwrap
ObfsCuts ==
  {"whole", "nothing", "one", "four", "six", "lessOne", "dataEnd",
   "dataEndLessOne"}

ObfsArgs ==
  {a \in [name : {"none", "padding", "tls"}, key : ObfsKeys, n : ObfsLens,
          r : ObfsRands, cut : ObfsCuts] :
     NewObfuscator(a.name, a.key).name # "nil"}

CutLen(a, w) ==
  LET hdr == IF a.name = "padding" THEN 2 ELSE IF a.name = "tls" THEN 7 ELSE 0
      k == CASE a.cut = "whole" -> BufLen(w)
             [] a.cut = "nothing" -> 0
             [] a.cut = "one" -> 1
             [] a.cut = "four" -> 4
             [] a.cut = "six" -> 6
             [] a.cut = "lessOne" -> BufLen(w) - 1
             [] a.cut = "dataEnd" -> hdr + a.n
             [] OTHER -> hdr + a.n - 1
  IN IF k < 0 THEN 0 ELSE IF k > BufLen(w) THEN BufLen(w) ELSE k

\* the sender's Wrap of the payload
CallWrap ==
  /\ callRes = <<>>
  /\ callRes' = <<[w |-> Wrap(NewObfuscator(callArgs.name, callArgs.key),
                              PayloadOf(callArgs.n), callArgs.r),
                   u |-> [err |-> "pending", buf |-> NoBytes]]>>
  /\ UNCHANGED callArgs

\* the receiver's Unwrap of what arrived of the wrapped bytes
CallUnwrap ==
  /\ callRes # <<>>
  /\ callRes[1].w.err = "nil"
  /\ callRes[1].u.err = "pending"
  /\ callRes' = <<[callRes[1] EXCEPT !.u =
                     Unwrap(NewObfuscator(callArgs.name, callArgs.key),
                            TakeBytes(callRes[1].w.buf,
                                      CutLen(callArgs, callRes[1].w.buf)))]>>
  /\ UNCHANGED callArgs

\* --------------------------------------------------------- NewSendHandle
Configs ==
  [SendQueueSize : QueueSizes, MaxRetries : RetryLimits,
   PacketWorkers : WorkerCounts, LF : {<<PA, A>>}]

InitPipe ==
  /\ sendQueue = <<>>
  /\ queueClosed = FALSE
  /\ ctxDone = FALSE
  /\ droppedPackets = 0
  /\ wpc = [r \in Reqs |-> "init"]
  /\ wret = [r \in Reqs |-> "none"]
  /\ accepted = {}
  /\ reqAddr = [r \in Reqs |-> 0]
  /\ reqLen = [r \in Reqs |-> 0]
  /\ retries = [r \in Reqs |-> 0]
  /\ errChan = [r \in Reqs |-> <<>>]
  /\ attempts = [r \in Reqs |-> 0]
  /\ completions = [r \in Reqs |-> 0]
  /\ kpc = [w \in WorkerIds |-> "select"]
  /\ kreq = [w \in WorkerIds |-> NoReq]
  /\ cpc = "idle"

InitTCPState ==
  /\ tsCounter = U32FromInt(0)
  /\ tcpFIndex = 0
  /\ wire = [d \in Dests |-> <<>>]
  /\ observed = [d \in Dests |-> NoneObserved]
  /\ emits = 0

InitIterIdle ==
  /\ itItems = <<>>
  /\ itIndex = 0
  /\ itReturned = <<>>

Init ==
  /\ cfg \in Configs
  /\ InitPipe
  /\ bootTime = <<0, 1000>>
  /\ InitTCPState
  /\ InitIterIdle
  /\ InitRestIdle

WriteWait(r) ==
  \/ WriteResult(r) /\ UNCHANGED <<tcpVars, iterVars, restVars>>
  \/ WriteWaitCancelled(r) /\ UNCHANGED <<tcpVars, iterVars, restVars>>

Write(r) ==
  \/ \E a \in PipeDests, l \in PipeLens :
       WriteEnqueue(r, a, l) /\ UNCHANGED <<tcpVars, iterVars, restVars>>
  \/ WriteCancelled(r) /\ UNCHANGED <<tcpVars, iterVars, restVars>>
  \/ WriteClosedQueue(r) /\ UNCHANGED <<tcpVars, iterVars, restVars>>
  \/ WriteQueueFull(r) /\ UNCHANGED <<tcpVars, iterVars, restVars>>
  \/ WriteWait(r)

processQueue(w) ==
  /\ w \in Workers
  /\ \/ WorkerExit(w) /\ UNCHANGED <<tcpVars, iterVars, restVars>>
     \/ WorkerDequeue(w) /\ UNCHANGED <<tcpVars, iterVars, restVars>>
     \/ \E ok \in BOOLEAN :
          /\ WorkerExecute(w, ok)
          /\ executeWrite(reqAddr[kreq[w]], reqLen[kreq[w]])
          /\ UNCHANGED <<wire, observed, emits, iterVars, restVars>>
     \/ BackoffRequeue(w) /\ UNCHANGED <<tcpVars, iterVars, restVars>>
     \/ BackoffDrop(w) /\ UNCHANGED <<tcpVars, iterVars, restVars>>
     \/ BackoffCancelled(w) /\ UNCHANGED <<tcpVars, iterVars, restVars>>

Close ==
  \/ CloseCancel /\ UNCHANGED <<tcpVars, iterVars, restVars>>
  \/ CloseFinish /\ UNCHANGED <<tcpVars, iterVars, restVars>>

Next ==
  \/ \E r \in Reqs : Write(r)
  \/ \E w \in Workers : processQueue(w)
  \/ Close

Spec == Init /\ [][Next]_vars

\* Goroutines are scheduled fairly: a worker, a Write blocked in its second
\* select, or a Close past wg.Wait() that can take a step eventually takes
\* one.  Nothing is assumed about Write or Close being called.
\* the steps of worker w and of a waiting Write r, as changes of the pipeline
WorkerStep(w) ==
  /\ w \in Workers
  /\ \/ WorkerExit(w)
     \/ WorkerDequeue(w)
     \/ \E ok \in BOOLEAN : WorkerExecute(w, ok)
     \/ BackoffRequeue(w)
     \/ BackoffDrop(w)
     \/ BackoffCancelled(w)

WaitStep(r) == WriteResult(r) \/ WriteWaitCancelled(r)

FairSpec ==
  /\ Spec
  /\ \A w \in WorkerIds : WF_pipeVars(WorkerStep(w))
  /\ \A r \in Reqs : WF_pipeVars(WaitStep(r))
  /\ WF_pipeVars(CloseFinish)

InitTCP ==
  /\ cfg \in [SendQueueSize : {1}, MaxRetries : {0}, PacketWorkers : {1},
              LF : LocalFlagLists]
  /\ InitPipe
  /\ bootTime \in BootTimes
  /\ InitTCPState
  /\ InitIterIdle
  /\ InitRestIdle

NextTCP ==
  \/ \E d \in Dests, l \in PayloadLens, ok \in BOOLEAN :
       Inject(d, l, ok) /\ UNCHANGED <<pipeVars, iterVars, restVars>>
  \/ \E d \in Dests, meta \in RemoteMetas :
       Read(d, meta) /\ UNCHANGED <<pipeVars, iterVars, restVars>>

SpecTCP == InitTCP /\ [][NextTCP]_vars

\* ------------------------------------------------- a fresh Iterator
ItemValues == 0..(MaxItems - 1)

ItemLists ==
  UNION {[1..n -> ItemValues] : n \in 1..MaxItems}

\* it.Next() on the iterator, the value it returns appended to the log
IterCall ==
  /\ Len(itReturned) < MaxCalls
  /\ itReturned' = Append(itReturned, IteratorNext(itItems, itIndex))
  /\ itIndex' = IteratorNextIndex(itIndex)
  /\ UNCHANGED itItems

InitIter ==
  /\ cfg \in [SendQueueSize : {1}, MaxRetries : {0}, PacketWorkers : {1},
              LF : {<<PA>>}]
  /\ InitPipe
  /\ bootTime = <<0, 1000>>
  /\ InitTCPState
  /\ itItems \in ItemLists
  /\ itIndex = 0
  /\ itReturned = <<>>
  /\ InitRestIdle

NextIter == IterCall /\ UNCHANGED <<pipeVars, tcpVars, restVars>>

SpecIter == InitIter /\ [][NextIter]_vars

\* ------------------------------------------------- the client's session ring
InitDatapathIdle ==
  /\ cfg \in [SendQueueSize : {1}, MaxRetries : {0}, PacketWorkers : {1},
              LF : {<<PA>>}]
  /\ InitPipe
  /\ bootTime = <<0, 1000>>
  /\ InitTCPState
  /\ InitIterIdle
  /\ InitOptions

InitClient ==
  /\ InitDatapathIdle
  /\ InitPoolIdle
  /\ InitAcceptIdle
  /\ InitPacketConn
  /\ InitCallIdle
  /\ clCfg \in [N : RingSizes, MaxRetryAttempts : RetryAttemptCfgs]
  /\ InitClientRing

newStrm(d) ==
  \/ \E createOk \in BOOLEAN : Attempt(d, createOk)
  \/ \E ok \in BOOLEAN : OpenStrm(d, ok)
  \/ Backoff(d)

ticker ==
  \/ TickerFire
  \/ TickerPing
  \/ TickerStop

NextClient ==
  /\ \/ \E d \in Dialers : StartStrm(d)
     \/ \E d \in Dialers : newStrm(d)
     \/ \E c \in ConnIds : ConnLost(c)
  /\ UNCHANGED <<pipeVars, tcpVars, iterVars, poolVars, acVars, pconnVars, moreVars>>

SpecClient == InitClient /\ [][NextClient]_vars

\* A newStrm call in progress keeps running; nothing is assumed about newStrm
\* being called or about connections being lost.
FairClient ==
  /\ SpecClient
  /\ \A d \in Dialers :
       WF_vars(newStrm(d) /\ UNCHANGED <<pipeVars, tcpVars, iterVars, poolVars, acVars, pconnVars, moreVars>>)

\* the callers together with the ping ticker and its context
NextSession ==
  \/ NextClient
  \/ ticker /\ UNCHANGED <<pipeVars, tcpVars, iterVars, poolVars, acVars, pconnVars, moreVars>>
  \/ ClientCancel /\ UNCHANGED <<pipeVars, tcpVars, iterVars, poolVars, acVars, pconnVars, moreVars>>

SpecSession == InitClient /\ [][NextSession]_vars

\* As FairClient, and the ticker goroutine keeps running.
FairSession ==
  /\ SpecSession
  /\ \A d \in Dialers :
       WF_vars(newStrm(d) /\ UNCHANGED <<pipeVars, tcpVars, iterVars, poolVars, acVars, pconnVars, moreVars>>)
  /\ WF_vars(ticker /\ UNCHANGED <<pipeVars, tcpVars, iterVars, poolVars, acVars, pconnVars, moreVars>>)

\* ------------------------------------ the server's target connection pool
InitPool ==
  /\ InitDatapathIdle
  /\ InitClientIdle
  /\ plCfg \in [Pooling : BOOLEAN, Size : PoolSizeCfgs]
  /\ InitPoolState
  /\ InitAcceptIdle
  /\ InitPacketConn
  /\ InitCallIdle

handleTCP(h) ==
  \/ \E dialOk \in BOOLEAN : HandleStart(h, dialOk)
  \/ GetPooled(h)
  \/ \E factoryOk \in BOOLEAN, dialOk \in BOOLEAN :
       GetFresh(h, factoryOk, dialOk)
  \/ GetCancelled(h)
  \/ \E dir \in Dirs, e \in {"nil", "err"} : CopyEnd(h, dir, e)
  \/ HandleResult(h)
  \/ HandleCancelled(h)

cleanupIdleConns ==
  \/ SweepStart
  \/ SweepExit
  \/ SweepTake
  \/ \E idle \in BOOLEAN : SweepPut(idle)

PoolClose ==
  \/ PoolCloseMark
  \/ PoolCloseDrain
  \/ PoolCloseDone
  \/ PoolCloseAgain

NextPool ==
  /\ \/ \E h \in Handlers : handleTCP(h)
     \/ cleanupIdleConns
     \/ PoolClose
     \/ ServerCancel
  /\ UNCHANGED <<pipeVars, tcpVars, iterVars, clientVars, acVars, pconnVars, moreVars>>

SpecPool == InitPool /\ [][NextPool]_vars

\* ------------------------------------------------- the server's accept loop
InitAccept ==
  /\ InitDatapathIdle
  /\ InitClientIdle
  /\ InitPoolIdle
  /\ lsCtxSet \in BOOLEAN
  /\ InitAcceptState
  /\ InitPacketConn
  /\ InitCallIdle

Accept ==
  \/ AcceptConn
  \/ AcceptTimeout
  \/ AcceptAfterTimeout
  \/ AcceptError

listen ==
  \/ LoopCheck
  \/ Accept
  \/ LoopResult

NextAccept ==
  /\ \/ listen
     \/ ListenerCloser
     \/ RootCancel
  /\ UNCHANGED <<pipeVars, tcpVars, iterVars, clientVars, poolVars, pconnVars, moreVars>>

SpecAccept == InitAccept /\ [][NextAccept]_vars

\* the loop's goroutine and the closing goroutine are both scheduled; the
\* listener reports its closure to a blocked Accept
FairAccept ==
  /\ SpecAccept
  /\ WF_acVars(LoopCheck)
  /\ WF_acVars(LoopResult)
  /\ WF_acVars(AcceptAfterTimeout)
  /\ WF_acVars(lsClosed /\ AcceptError)
  /\ WF_acVars(ListenerCloser)

\* ------------------------------------------------------- the PacketConn
ReadFrom ==
  \/ \E byCtx \in BOOLEAN : ReadFromStart(byCtx)
  \/ ReadFromFrame
  \/ ReadFromError

NextPacketConn ==
  /\ \/ ReadFrom
     \/ \E t \in Deadlines : SetReadDeadline(t)
     \/ Tick
     \/ FrameArrives
     \/ ParentCancel
     \/ PacketConnClose
     \/ RecvHandleClose
     \/ SendHandleClose
  /\ UNCHANGED <<pipeVars, tcpVars, iterVars, clientVars, poolVars, acVars, moreVars>>

InitReader ==
  /\ InitDatapathIdle
  /\ InitRestIdle

SpecPacketConn == InitReader /\ [][NextPacketConn]_vars

\* the PacketConn with both directions and SetDeadline
NextConnClose ==
  /\ \/ ReadFrom
     \/ \E byCtx \in BOOLEAN, addrOk \in BOOLEAN : WriteTo(byCtx, addrOk)
     \/ \E t \in Deadlines : SetDeadline(t)
     \/ Tick
     \/ FrameArrives
     \/ ParentCancel
     \/ PacketConnClose
     \/ RecvHandleClose
     \/ SendHandleClose
  /\ UNCHANGED <<pipeVars, tcpVars, iterVars, clientVars, poolVars, acVars, moreVars>>

SpecConnClose == InitReader /\ [][NextConnClose]_vars

\* the two goroutines PacketConn.Close starts are scheduled
FairConnClose ==
  /\ SpecConnClose
  /\ WF_pconnVars(RecvHandleClose)
  /\ WF_pconnVars(SendHandleClose)

\* --------------------------------------------------- calculateBackoff calls
InitBackoff ==
  /\ InitDatapathIdle
  /\ InitClientIdle
  /\ InitPoolIdle
  /\ InitAcceptIdle
  /\ InitPacketConn
  /\ callArgs \in [cfg : BackoffCfgs, retries : 1..MaxRetryNo, k : Jitters]
  /\ callRes = <<>>

NextBackoff ==
  /\ CalcBackoff
  /\ UNCHANGED <<pipeVars, tcpVars, iterVars, clientVars, poolVars, acVars,
                 pconnVars, optVars>>

SpecBackoff == InitBackoff /\ [][NextBackoff]_vars

\* ------------------------------------------------------ setClientTCPF calls
InitSetTCPF ==
  /\ InitDatapathIdle
  /\ InitClientIdle
  /\ InitPoolIdle
  /\ InitAcceptIdle
  /\ InitPacketConn
  /\ callArgs \in [map : OverrideMaps, addr : AddrArgs, f : LocalFlagLists]
  /\ callRes = <<>>

NextSetTCPF ==
  /\ SetClientTCPF
  /\ UNCHANGED <<pipeVars, tcpVars, iterVars, clientVars, poolVars, acVars,
                 pconnVars, optVars>>

SpecSetTCPF == InitSetTCPF /\ [][NextSetTCPF]_vars

\* ---------------------------------------------------------- LocalAddr calls
InitLocalAddr ==
  /\ InitDatapathIdle
  /\ InitClientIdle
  /\ InitPoolIdle
  /\ InitAcceptIdle
  /\ InitPacketConn
  /\ callArgs \in NetworkCfgs
  /\ callRes = <<>>

NextLocalAddr ==
  /\ CallLocalAddr
  /\ UNCHANGED <<pipeVars, tcpVars, iterVars, clientVars, poolVars, acVars,
                 pconnVars, optVars>>

SpecLocalAddr == InitLocalAddr /\ [][NextLocalAddr]_vars

InitServerNew ==
  /\ InitDatapathIdle
  /\ InitClientIdle
  /\ InitPoolIdle
  /\ InitAcceptIdle
  /\ InitPacketConn
  /\ callArgs \in [role : Roles, perf : PerformanceCfgs]
  /\ callRes = <<>>

NextServerNew ==
  /\ CallLoadAndNew
  /\ UNCHANGED <<pipeVars, tcpVars, iterVars, clientVars, poolVars, acVars, pconnVars,
                 optVars>>

SpecServerNew == InitServerNew /\ [][NextServerNew]_vars

InitFraming ==
  /\ InitDatapathIdle
  /\ InitClientIdle
  /\ InitPoolIdle
  /\ InitAcceptIdle
  /\ InitPacketConn
  /\ callArgs \in
       {[framer |-> NewFixedFramer(a[1], a[2]), data |-> DataOf(n),
         rands |-> [i \in 1..MaxDraws |-> [top |-> FALSE, v |-> 0]]] :
          a \in FramerArgs, n \in DataLens}
       \cup
       {[framer |-> NewRandomFramer(a[1], a[2]), data |-> DataOf(n),
         rands |-> p] :
          a \in FramerArgs, n \in DataLens, p \in RandPatterns}
  /\ callRes = <<>>

NextFraming ==
  /\ CallFrame
  /\ UNCHANGED <<pipeVars, tcpVars, iterVars, clientVars, poolVars, acVars, pconnVars,
                 optVars>>

SpecFraming == InitFraming /\ [][NextFraming]_vars

InitPCAPValidate ==
  /\ InitDatapathIdle
  /\ InitClientIdle
  /\ InitPoolIdle
  /\ InitAcceptIdle
  /\ InitPacketConn
  /\ callArgs \in PCAPCfgs
  /\ callRes = <<>>

NextPCAPValidate ==
  /\ CallPCAPValidate
  /\ UNCHANGED <<pipeVars, tcpVars, iterVars, clientVars, poolVars, acVars, pconnVars,
                 optVars>>

SpecPCAPValidate == InitPCAPValidate /\ [][NextPCAPValidate]_vars

InitBuilders ==
  /\ cfg \in [SendQueueSize : {1}, MaxRetries : {0}, PacketWorkers : {1},
              LF : {<<PA>>}]
  /\ InitPipe
  /\ bootTime \in BootTimes
  /\ InitTCPState
  /\ InitIterIdle
  /\ InitClientIdle
  /\ InitPoolIdle
  /\ InitAcceptIdle
  /\ InitPacketConn
  /\ InitCallIdle
  /\ optData = [syn |-> <<U32FromInt(0), U32FromInt(0)>>,
                ack |-> <<U32FromInt(0), U32FromInt(0)>>]
  /\ bld \in {[w \in 1..n |-> IdleBuilder] : n \in BuilderCounts}

NextBuilders ==
  \E w \in DOMAIN bld :
    /\ \/ \E f \in BuildFlags : BuildStart(w, f)
       \/ PutTSval(w)
       \/ PutTSecr(w)
       \/ SerializeTSval(w)
       \/ SerializeTSecr(w)
    /\ UNCHANGED <<pipeVars, iterVars, clientVars, poolVars, acVars, pconnVars,
                   callVars>>

SpecBuilders == InitBuilders /\ [][NextBuilders]_vars

\* ------------------------------------------------------ getClientTCPF calls
InitSelectTCPF ==
  /\ InitDatapathIdle
  /\ InitClientIdle
  /\ InitPoolIdle
  /\ InitAcceptIdle
  /\ InitPacketConn
  /\ callArgs \in {NewTCPF(lf) : lf \in LocalFlagLists}
  /\ callRes = <<>>

NextSelectTCPF ==
  /\ \/ \E dst \in TCPFDests : SelectTCPF(dst)
     \/ \E dst \in TCPFDests, f \in OverrideLists : InstallTCPF(dst, f)
  /\ UNCHANGED <<pipeVars, tcpVars, iterVars, clientVars, poolVars, acVars,
                 pconnVars, optVars>>

SpecSelectTCPF == InitSelectTCPF /\ [][NextSelectTCPF]_vars

\* --------------------------------------------------------- newStrm calls
InitNewStrm ==
  /\ InitDatapathIdle
  /\ InitClientIdle
  /\ InitPoolIdle
  /\ InitAcceptIdle
  /\ InitPacketConn
  /\ callArgs \in [cfg : RetryCfgs, failing : 0..MaxFailures]
  /\ callRes = <<>>

NextNewStrm ==
  /\ CallNewStrm
  /\ UNCHANGED <<pipeVars, tcpVars, iterVars, clientVars, poolVars, acVars,
                 pconnVars, optVars>>

SpecNewStrm == InitNewStrm /\ [][NextNewStrm]_vars

\* ----------------------------------------------- headers built in sequence
InitHeaders ==
  /\ cfg \in [SendQueueSize : {1}, MaxRetries : {0}, PacketWorkers : {1},
              LF : {<<PA>>}]
  /\ InitPipe
  /\ bootTime \in HandleTimes
  /\ tsCounter \in CounterStarts
  /\ tcpFIndex = 0
  /\ wire = [d \in Dests |-> <<>>]
  /\ observed = [d \in Dests |-> NoneObserved]
  /\ emits = 0
  /\ InitIterIdle
  /\ InitOptions
  /\ InitClientIdle
  /\ InitPoolIdle
  /\ InitAcceptIdle
  /\ InitPacketConn
  /\ callArgs = 0
  /\ callRes = <<>>

NextHeaders ==
  /\ \E f \in BuildFlags : BuildHeader(f)
  /\ UNCHANGED <<pipeVars, iterVars, clientVars, poolVars, acVars, pconnVars,
                 optVars>>

SpecHeaders == InitHeaders /\ [][NextHeaders]_vars

\* ------------------------------------------------------- obfuscator calls
InitObfs ==
  /\ InitDatapathIdle
  /\ InitClientIdle
  /\ InitPoolIdle
  /\ InitAcceptIdle
  /\ InitPacketConn
  /\ callArgs \in ObfsArgs
  /\ callRes = <<>>

NextObfs ==
  /\ CallWrap \/ CallUnwrap
  /\ UNCHANGED <<pipeVars, tcpVars, iterVars, clientVars, poolVars, acVars,
                 pconnVars, optVars>>

SpecObfs == InitObfs /\ [][NextObfs]_vars

\* -------------------------------------------------------------- properties
InQueue(r) == \E i \in 1..Len(sendQueue) : sendQueue[i] = r
Held(r) == \E w \in Workers : kreq[w] = r
Completed == Cardinality({r \in Reqs : completions[r] > 0})

\* C1: in every reachable state of the send pipeline the number of requests
\* in the send queue is at most the configured send_queue_size.
C1_QueueDepthBounded == Len(sendQueue) <= cfg.SendQueueSize

\* the queue is full and one of its requests got there by a retry re-enqueue
C1_Witness ==
  /\ Len(sendQueue) = cfg.SendQueueSize
  /\ \E r \in Reqs : InQueue(r) /\ retries[r] > 0

C3_CompletedExactlyOnce ==
  /\ [](\A r \in Reqs :
          /\ completions[r] <= 1
          /\ completions[r] = 1 => r \in accepted)
  /\ \A r \in Reqs : (r \in accepted) ~> (completions[r] = 1 \/ ctxDone)

\* the three ways of completing have all been taken with the pipeline open
C3_Witness ==
  /\ ~ctxDone
  /\ \E r \in Reqs : completions[r] = 1 /\ wret[r] = "QueueFullRetry"
  /\ \E r \in Reqs : completions[r] = 1 /\ wret[r] \in {"nil", "InjectErr"}

\* C4 as stated: enqueued minus completed never exceeds send_queue_size.
C4_OutstandingAtMostQueueSize ==
  Cardinality(accepted) - Completed <= cfg.SendQueueSize

\* C4 amended: enqueued minus completed is the queue depth plus the number
\* of requests held by workers, hence at most send_queue_size plus the
\* number of workers.
C4_OutstandingBounded ==
  /\ Cardinality(accepted) - Completed
       = Len(sendQueue) + Cardinality({w \in Workers : kreq[w] # NoReq})
  /\ Cardinality(accepted) - Completed
       <= cfg.SendQueueSize + cfg.PacketWorkers

C4_Witness ==
  /\ Cardinality(accepted) - Completed
       = cfg.SendQueueSize + cfg.PacketWorkers
  /\ \E w \in Workers : kpc[w] = "backoff"

\* C5: no request is injected more than max_retries + 1 times, its retry
\* counter never exceeds max_retries, and with max_retries = 0 a request is
\* reported to its caller right after its single attempt.
C5_RetriesBounded ==
  \A r \in Reqs :
    /\ attempts[r] <= cfg.MaxRetries + 1
    /\ retries[r] <= cfg.MaxRetries
    /\ (cfg.MaxRetries = 0 /\ attempts[r] > 0)
         => attempts[r] = 1 /\ completions[r] = 1

\* a request failed max_retries + 1 times and its caller got the error
C5_Witness ==
  \E r \in Reqs :
    /\ cfg.MaxRetries > 0
    /\ attempts[r] = cfg.MaxRetries + 1
    /\ retries[r] = cfg.MaxRetries
    /\ wret[r] = "InjectErr"

\* C6 as stated: a Write that is waiting for its completion after the
\* context was cancelled returns the cancellation error.
C6_BlockedWriteGetsCancelled ==
  [][\A r \in Reqs :
       (ctxDone /\ wpc[r] = "wait" /\ wpc'[r] = "done")
         => wret'[r] = "Cancelled"]_vars

\* C6 amended: after the context is cancelled every Write waiting for its
\* completion returns, with the cancellation error or with the result a
\* worker has signalled; every worker terminates and Close returns.
C6_ShutdownTerminates ==
  /\ ctxDone ~> /\ \A r \in Reqs : wpc[r] # "wait"
                /\ \A w \in Workers : kpc[w] = "done"
                /\ cpc = "done"
  /\ [][\A r \in Reqs :
          (ctxDone /\ wpc[r] = "wait" /\ wpc'[r] = "done")
            => \/ wret'[r] = "Cancelled"
               \/ errChan[r] # <<>> /\ wret'[r] = Head(errChan[r])]_vars

\* shutdown is over and a Write that had been accepted got Cancelled
C6_Witness ==
  /\ cpc = "done"
  /\ \A w \in Workers : kpc[w] = "done"
  /\ \A r \in Reqs : wpc[r] # "wait"
  /\ \E r \in accepted : wret[r] = "Cancelled"

\* C7: consecutive segments emitted on one flow satisfy
\* seq(k+1) = seq(k) + L(k) + b(k) modulo 2^32, b(k) = 1 iff SYN or FIN.
SeqInc(s) ==
  s.len + (IF "SYN" \in s.flags \/ "FIN" \in s.flags THEN 1 ELSE 0)

C7_SeqAdvancesByPayload ==
  \A d \in Dests :
    Len(wire[d]) = 2
      => wire[d][2].seg.seq
           = Add32(wire[d][1].seg.seq, U32FromInt(SeqInc(wire[d][1].seg)))

\* C8: a segment emitted after remote segment R was observed on its flow
\* carries ack = R.seq + R.len + (1 if R has SYN or FIN); with nothing
\* observed on the flow it carries ack = 0.
ExpectedAck(obs) ==
  IF ~obs.seen THEN U32FromInt(0)
  ELSE Add32(obs.meta.Seq,
             U32FromInt(obs.meta.PayloadLen
                        + (IF obs.meta.SYN \/ obs.meta.FIN THEN 1 ELSE 0)))

C8_AckEchoesObserved ==
  \A d \in Dests :
    \A k \in 1..Len(wire[d]) :
      wire[d][k].seg.ack = ExpectedAck(wire[d][k].obs)

\* C9: every emitted segment's TSecr is the TSval most recently observed on
\* its flow, or 0 if none was observed.
C9_TSecrEchoesObserved ==
  \A d \in Dests :
    \A k \in 1..Len(wire[d]) :
      wire[d][k].seg.tsecr
        = (IF wire[d][k].obs.tsSeen THEN wire[d][k].obs.tsval
                                    ELSE U32FromInt(0))

\* C10: the k-th Next on a fresh iterator over N items returns
\* Items[(k-1) mod N] (0-based), the element at the index before advancing.
C10_NextReturnsCurrent ==
  \A k \in 1..Len(itReturned) :
    itReturned[k] = itItems[((k - 1) % Len(itItems)) + 1]


\* C11: after K sequential newConn calls on a ring of N slots, K >= N, every
\* slot has been selected at least K \div N times.
C11_RingFairness ==
  LET K == picks[1] + picks[2] + picks[3] IN
  K >= clCfg.N => \A s \in Slots : picks[s] >= K \div clCfg.N

\* five calls on a ring of three slots, which is not a power of two
C11_Witness ==
  /\ clCfg.N = 3
  /\ picks[1] + picks[2] + picks[3] = 5

\* C12: a newStrm call makes at most max_retry_attempts attempts (5 when the
\* configured value is <= 0), each one newConn followed by OpenStrm; it
\* returns the stream of the first attempt whose OpenStrm succeeds, returns
\* an error exactly when max_retry_attempts attempts have failed, and every
\* call returns.
C12_NewStrmTerminates ==
  /\ [](\A d \in Dialers :
          LET max == IF clCfg.MaxRetryAttempts <= 0 THEN 5
                     ELSE clCfg.MaxRetryAttempts
          IN
          /\ dcalls[d].newConn <= max
          /\ dcalls[d].openStrm <= dcalls[d].newConn
          /\ dcalls[d].newConn <= dcalls[d].openStrm + 1
          /\ dret[d] = "error"
               => dcalls[d].newConn = max /\ dcalls[d].openStrm = max
          /\ dret[d] = "strm"
               => dcalls[d].openStrm = dcalls[d].newConn)
  /\ [][\A d \in Dialers :
          (dret[d] = "none" /\ dret'[d] = "strm")
            => /\ dpc[d] = "openStrm"
               /\ connState[dconn[d]] = "alive"
               /\ dcalls'[d].openStrm = dattempt[d] + 1]_vars
  /\ \A d \in Dialers : (dpc[d] # "idle") ~> (dpc[d] = "idle")

\* a call gave up after five failed attempts
C12_Witness ==
  \E d \in Dialers :
    /\ clCfg.MaxRetryAttempts = 0
    /\ dret[d] = "error"
    /\ dcalls[d].openStrm = 5

\* C13: when the ping of the slot newConn selected fails, the slot's old
\* connection is closed, the slot holds a newly created connection and that
\* connection is the one newConn returns.
C13_HandsRebuiltConn ==
  [][\A d \in Dialers :
       LET s == IteratorNext(RingItems, clIndex) IN
       (dpc[d] = "attempt" /\ dpc'[d] = "openStrm" /\ PingFails(slotConn[s]))
         => /\ connState'[slotConn[s]] = "closed"
            /\ dconn'[d] # slotConn[s]
            /\ dconn'[d] = slotConn'[s]
            /\ connState'[dconn'[d]] = "alive"]_vars

\* C14: a slot whose ping failed, in the ticker or in newConn, is eventually
\* rebuilt (as long as the client's context is not cancelled).
C14_FailedPingRebuilds ==
  \A s \in RingIds :
    (s \in Slots /\ pingFailed[s]) ~> (~pingFailed[s] \/ clCtxDone)

\* C15: a connection on which the handler saw a copy error is closed, is
\* not stored in the pool (nor held by the sweeper for putting back), and no
\* Get hands it to a handleTCP call.
C15_ErrorConnDiscarded ==
  /\ [](\A c \in TargetConns :
          sawErr[c] => /\ tcState[c] = "closed"
                       /\ ~InPool(c)
                       /\ swHeld # c)
  /\ [][\A h \in Handlers :
          hconn'[h] # hconn[h] => ~sawErr[hconn'[h]]]_vars

\* a pooled connection failed under one call and a later Get served another
C15_Witness ==
  \E c \in TargetConns, h \in Handlers :
    /\ sawErr[c]
    /\ tcPooled[c]
    /\ hpc[h] = "piping"
    /\ hconn[h] # c
    /\ tcPooled[hconn[h]]

C17_EndClosesTarget ==
  [][\A h \in Handlers :
       ( /\ hpc[h] = "piping"
         /\ hpc'[h] = "done"
         /\ herr'[h] # herr[h] )
       => tcState'[hconn[h]] = "closed"]_vars

\* C18: in the quic Listener's Accept, a timeout with the listener context
\* live goes back to accepting in the same call, a timeout with the context
\* cancelled makes the call return ctx.Err(), a connection is returned to
\* the caller, and while the context is live the call returns only with a
\* connection or with an error that is not a timeout.
C18_AcceptLoop ==
  /\ [][(lpc = "timeout" /\ lpc' # lpc) =>
          IF LCtxDone
            THEN lpc' = "result" /\ acRet' = "ctxErr"
            ELSE lpc' = "accept" /\ acRet' = "none"]_vars
  /\ [][(lpc = "accept" /\ acRet' = "conn") => lpc' = "result"]_vars
  /\ [][(lpc \in {"accept", "timeout"} /\ lpc' = "result" /\ ~LCtxDone) =>
          /\ lpc = "accept"
          /\ acRet' \in {"conn", "err"}
          /\ acRet' = "err" => (lsClosed \/ acErrs' = acErrs + 1)]_vars

\* an Accept call timed out twice, went on, and returned ctx.Err() after the
\* cancellation
C18_Witness ==
  /\ timeouts = 2
  /\ lpc = "result"
  /\ acRet = "ctxErr"

\* C19 (as stated): once the root context is cancelled, Accept returns no
\* further connection to the loop.
C19_NoAcceptAfterCancel == lateAccepts = 0

\* C19 (amended): the accept loop returns only after the cancellation; after
\* every Accept result, error or connection, it goes back to the top and,
\* with the context live, calls Accept again; after the cancellation it
\* eventually returns, for good, and at most one connection is accepted in
\* between.
C19_AcceptLoopEnds ==
  /\ [](lpc = "returned" => acCtxDone)
  /\ [](lateAccepts <= 1)
  /\ [][(lpc = "result" /\ lpc' # lpc) => lpc' = "check"]_vars
  /\ [][(lpc = "check" /\ ~acCtxDone /\ lpc' # lpc) => lpc' = "accept"]_vars
  /\ [][lpc = "returned" => (lpc' = lpc /\ spawned' = spawned)]_vars
  /\ acCtxDone ~> (lpc = "returned")

\* the loop survived a failed Accept, took one connection after the
\* cancellation and returned
C19_Witness ==
  /\ lpc = "returned"
  /\ acErrs = 1
  /\ lateAccepts = 1
  /\ spawned = 2

\* C20: a ReadFrom that loaded a non-zero read deadline is not still
\* waiting for a frame after the deadline has passed with no frame there.
C20_DeadlineEndsRead ==
  ~( /\ rpc = "blocked"
     /\ callDl # 0
     /\ clock > callDl
     /\ frames = 0 )

\* C21 (as stated): a ReadFrom or WriteTo that starts with c.ctx cancelled
\* returns the cancellation error.
C21_CancelledCallsReturnCtxErr ==
  [][/\ (reads' # reads /\ pcCtxDone) => rret' = "ctxErr"
     /\ (writes' # writes /\ pcCtxDone) => wtRet' = "ctxErr"]_vars

\* C21 (amended): a ReadFrom or WriteTo that starts with c.ctx cancelled
\* returns at once, without Read and without Write, with the cancellation
\* error or, only if its deadline had already passed, ErrDeadlineExceeded;
\* after PacketConn.Close both handles are eventually closed.
C21_CancelledCallsDoNoIO ==
  /\ [][(reads' # reads /\ pcCtxDone) =>
          /\ rpc' = "returned"
          /\ rret' \in {"ctxErr", "deadline"}
          /\ rret' = "deadline" => DeadlineDue(readDeadline)]_vars
  /\ [][(writes' # writes /\ pcCtxDone) =>
          /\ wtRet' \in {"ctxErr", "deadline"}
          /\ wtRet' = "deadline" => DeadlineDue(writeDeadline)]_vars
  /\ (rhState = "closing") ~> (rhState = "closed")
  /\ (shState = "closing") ~> (shState = "closed")

\* after Close, with both handles closed, a ReadFrom and a WriteTo were
\* made and returned the cancellation error
C21_Witness ==
  /\ rhState = "closed"
  /\ shState = "closed"
  /\ reads = 1
  /\ rret = "ctxErr"
  /\ writes = 1
  /\ wtRet = "ctxErr"

\* no worker has taken anything from the queue
Undrained ==
  /\ \A r \in Reqs : attempts[r] = 0
  /\ \A w \in WorkerIds : kreq[w] = NoReq

\* SendHandle.QueueDepth
QueueDepth == Len(sendQueue)

\* with send_queue_size = C, the pipeline open and undrained, and C + 1
\* Writes past their first select: C accepted and waiting, one rejected
BackpressureCase ==
  ( /\ Undrained
    /\ ~ctxDone
    /\ NumReqs = cfg.SendQueueSize + 1
    /\ \A r \in Reqs : wpc[r] # "init" )
  => /\ Cardinality(accepted) = cfg.SendQueueSize
     /\ \A r \in accepted : wpc[r] = "wait"
     /\ Cardinality({r \in Reqs : wret[r] = "QueueFull"}) = 1
     /\ QueueDepth = cfg.SendQueueSize
     /\ droppedPackets = 1

\* C22 (as stated): the C + 1 case, and QueueDepth is the number of accepted
\* requests no worker has dequeued.
C22_DepthCountsNeverDequeued ==
  /\ BackpressureCase
  /\ QueueDepth =
       Cardinality({r \in accepted : attempts[r] = 0 /\ ~Held(r)})

\* C22 (amended): the C + 1 case, and QueueDepth is the number of accepted
\* requests no worker has dequeued plus the number of requests a worker put
\* back for a retry and that have not been dequeued again.
C22_DepthCountsQueued ==
  /\ BackpressureCase
  /\ QueueDepth =
       Cardinality({r \in accepted : attempts[r] = 0 /\ ~Held(r)})
       + Cardinality({r \in accepted :
                        /\ attempts[r] > 0
                        /\ ~Held(r)
                        /\ completions[r] = 0})

\* C + 1 Writes against an undrained queue of size C have all passed their
\* first select
C22_Witness ==
  /\ Undrained
  /\ ~ctxDone
  /\ NumReqs = cfg.SendQueueSize + 1
  /\ \A r \in Reqs : wpc[r] # "init"
  /\ droppedPackets = 1

\* the bounds the tests state for initial 100 / max 10000 and for initial
\* 10 / max 1000, as <<initial, max, retries, low, high>>
BackoffTable ==
  {<<100, 10000, 1, 100, 120>>, <<100, 10000, 2, 200, 240>>,
   <<100, 10000, 3, 400, 480>>, <<100, 10000, 4, 800, 960>>,
   <<100, 10000, 5, 1600, 1920>>, <<100, 10000, 6, 3200, 3840>>,
   <<100, 10000, 10, 10000, 12000>>,
   <<10, 1000, 1, 10, 12>>, <<10, 1000, 2, 20, 24>>,
   <<10, 1000, 10, 1000, 1200>>}

\* C23: calculateBackoff(r) is at least b and at most 1.2 * b milliseconds
\* for b = min(max_backoff, initial_backoff * 2^(r-1)), and within the
\* ranges the tests list.
C23_BackoffInRange ==
  callRes # <<>> =>
    LET a == callArgs
        p == a.cfg.initial * Pow2(a.retries - 1)
        b == IF p < a.cfg.max THEN p ELSE a.cfg.max
        d == callRes[1]
    IN /\ b <= d
       /\ 10 * d <= 12 * b
       /\ \A t \in BackoffTable :
            (t[1] = a.cfg.initial /\ t[2] = a.cfg.max /\ t[3] = a.retries)
              => (t[4] <= d /\ d <= t[5])

\* the capped tenth retry with nearly the whole jitter
C23_Witness ==
  /\ callRes = <<11998>>
  /\ callArgs.retries = 10
  /\ callArgs.cfg.initial = 100

\* C24: setClientTCPF with a nil address does not panic and leaves the
\* override map as it was; with a UDP address it leaves the map with
\* exactly one entry for that destination, holding the given flags, and the
\* other entries as they were.
C24_NilAddrIsNoOp ==
  callRes # <<>> =>
    LET a == callArgs
        r == callRes[1]
        k == <<a.addr.ip, a.addr.port>>
    IN /\ a.addr.kind = "nil" => (~r.panic /\ r.map = a.map)
       /\ a.addr.kind = "UDPAddr" =>
            /\ ~r.panic
            /\ k \in DOMAIN r.map
            /\ r.map[k] = a.f
            /\ DOMAIN r.map = (DOMAIN a.map) \cup {k}
            /\ \A d \in DOMAIN a.map : d # k => r.map[d] = a.map[d]

\* C25: LocalAddr never returns nil; it returns the IPv4 address and port
\* if IPv4 is configured, else the IPv6 address and port if IPv6 is, else
\* 0.0.0.0 with the configured port, and 0.0.0.0:0 for a nil configuration.
C25_LocalAddrNeverNil ==
  callRes # <<>> =>
    LET c == callArgs
        r == callRes[1]
    IN /\ ~r.isNil
       /\ c.isNil => (r.ip = IPv4zero /\ r.port = 0)
       /\ (~c.isNil /\ c.IPv4.set) =>
            (r.ip = c.IPv4.ip /\ r.port = c.IPv4.port)
       /\ (~c.isNil /\ ~c.IPv4.set /\ c.IPv6.set) =>
            (r.ip = c.IPv6.ip /\ r.port = c.IPv6.port)
       /\ (~c.isNil /\ ~c.IPv4.set /\ ~c.IPv6.set) =>
            (r.ip = IPv4zero /\ r.port = c.Port)

\* both families configured, with different ports: the IPv4 one is returned
C25_Witness ==
  /\ callRes # <<>>
  /\ callArgs.IPv4.set
  /\ callArgs.IPv6.set
  /\ callArgs.IPv4.port # callArgs.IPv6.port
  /\ callRes[1].port = callArgs.IPv4.port

\* C26: a configuration with max_concurrent_streams = 0 yields, after the
\* defaults are applied and the server is constructed, a server without a
\* stream semaphore.
C26_ZeroMeansUnlimited ==
  (callRes # <<>> /\ callArgs.perf.MaxConcurrentStreams = 0)
    => (~callRes[1].err /\ callRes[1].server.streamSemaphore.isNil)

\* C27: for both framers and every byte string, Frame ends without a panic
\* and Coalesce of its frames gives the byte string back; each frame of the
\* random framer is non-empty and at most maxSize bytes long.
C27_FramersRoundTrip ==
  callRes # <<>> =>
    LET f == callArgs.framer
        r == callRes[1]
    IN /\ ~r.panic
       /\ r.done
       /\ Coalesce(r.frames) = callArgs.data
       /\ f.name = "random" =>
            \A i \in 1..Len(r.frames) :
              Len(r.frames[i]) >= 1 /\ Len(r.frames[i]) <= f.maxSize

\* the four send-queue settings are all inside their ranges
PCAPInRange(p) ==
  /\ p.SendQueueSize >= 1 /\ p.SendQueueSize <= 100000
  /\ p.MaxRetries >= 0 /\ p.MaxRetries <= 10
  /\ p.InitialBackoff >= 1 /\ p.InitialBackoff <= 1000
  /\ p.MaxBackoff >= p.InitialBackoff /\ p.MaxBackoff <= 60000

\* C28: PCAP.validate reports an error whenever send_queue_size is outside
\* [1, 100000], max_retries outside [0, 10], initial_backoff_ms outside
\* [1, 1000], or max_backoff_ms below initial_backoff_ms or above 60000, and
\* none of these errors when all four are in range.
C28_ValidateRanges ==
  callRes # <<>> =>
    LET p == callArgs
        errs == callRes[1]
    IN /\ (p.SendQueueSize < 1 \/ p.SendQueueSize > 100000)
            => "send_queue_size" \in errs
       /\ (p.MaxRetries < 0 \/ p.MaxRetries > 10) => "max_retries" \in errs
       /\ (p.InitialBackoff < 1 \/ p.InitialBackoff > 1000)
            => "initial_backoff_ms" \in errs
       /\ (p.MaxBackoff < p.InitialBackoff \/ p.MaxBackoff > 60000)
            => "max_backoff_ms" \in errs
       /\ PCAPInRange(p) => errs \cap SendQueueErrors = {}

\* every setting on a boundary, max_retries = 0: no error at all
C28_Witness ==
  /\ callRes # <<>>
  /\ callArgs.SendQueueSize = 100000
  /\ callArgs.MaxRetries = 0
  /\ callArgs.InitialBackoff = 1000
  /\ callArgs.MaxBackoff = 1000
  /\ callRes[1] = {}

\* C29: the timestamp option bytes serialized into a segment are the TSval
\* and TSecr computed for that segment, however many workers build segments
\* at the same time.
C29_SegmentCarriesOwnTimestamps ==
  \A w \in DOMAIN bld :
    bld[w].pc = "sent" =>
      (bld[w].outVal = bld[w].tsVal /\ bld[w].outEcr = bld[w].tsEcr)

\* C30: a Write that runs while Close runs, or starts after Close has
\* completed, never sends on the closed send queue (no panic); one that
\* starts after the queue was closed returns the cancellation error.
C30_WriteNeverSendsOnClosedQueue ==
  [][\A r \in Reqs :
       /\ wret'[r] # "panic"
       /\ (queueClosed /\ Starting(r) /\ wpc'[r] = "done")
            => wret'[r] = "Cancelled"]_vars

\* C31: while the pipeline is open every Write whose request was accepted
\* eventually returns, and it returns nil, the injection error or the
\* queue-full-on-retry error.
C31_AcceptedWriteReturns ==
  /\ \A r \in Reqs : (r \in accepted) ~> (wpc[r] = "done" \/ ctxDone)
  /\ [](\A r \in Reqs :
          (r \in accepted /\ wpc[r] = "done" /\ ~ctxDone)
            => wret[r] \in {"nil", "InjectErr", "QueueFullRetry"})

\* an accepted request was retried and its Write returned the injection
\* error, the pipeline still open
C31_Witness ==
  /\ ~ctxDone
  /\ \E r \in accepted :
       retries[r] > 0 /\ wpc[r] = "done" /\ wret[r] = "InjectErr"

\* C32: in every interleaving of ConnPool.Get with ConnPool.Close, Get
\* returns a connection or an error; it never takes nil from the closed
\* pool channel and dereferences it.
C32_GetNeverTakesNil ==
  \A h \in Handlers :
    /\ hpc[h] # "panic"
    /\ hpc[h] = "piping" => tcState[hconn[h]] # "none"

\* C33: the sweeper never sends a connection on the closed pool channel, and
\* a connection it has taken out is back in the pool or closed once the
\* iteration is over.
C33_SweeperNeverSendsOnClosed ==
  /\ swpc # "panic"
  /\ swpc # "hold" => swHeld = NoTarget

\* the handleTCP calls with a copy goroutine still running on connection c
UsersOf(c) ==
  {h \in Handlers : hconn[h] = c /\ \E d \in Dirs : copy[h][d] = "run"}

\* C34: a pooled connection is used by at most one handler at a time: a
\* connection lying in the pool has no copy goroutine running on it, and no
\* connection has copy goroutines of two handleTCP calls.
C34_PooledConnHasOneUser ==
  \A c \in TargetConns :
    /\ InPool(c) => UsersOf(c) = {}
    /\ Cardinality(UsersOf(c)) <= 1

RetryTerm(c, k) ==
  LET i == IF c.RetryInitialBackoffMs <= 0 THEN 100 ELSE c.RetryInitialBackoffMs
      m == IF c.RetryMaxBackoffMs <= 0 THEN 10000 ELSE c.RetryMaxBackoffMs
  IN IF i * Pow2(k - 1) < m THEN i * Pow2(k - 1) ELSE m

RECURSIVE RetryTermSum(_, _)
RetryTermSum(c, n) == IF n <= 0 THEN 0 ELSE RetryTerm(c, n) + RetryTermSum(c, n - 1)

RECURSIVE SumOf(_)
SumOf(q) == IF q = <<>> THEN 0 ELSE Head(q) + SumOf(Tail(q))

\* C38: the sleep after the k-th failed attempt of one newStrm call is
\* min(retry_max_backoff_ms, retry_initial_backoff_ms * 2^(k-1)) ms, with
\* 100 and 10000 for configured values <= 0 (100, 200, 400, 800, 1600 for
\* five failures with the defaults), and the sleeps of the call add up to
\* at most the sum of these terms over max_retry_attempts attempts.
C38_RetryBackoff ==
  callRes # <<>> =>
    LET c == callArgs.cfg
        slept == callRes[1].slept
        maxAttempts == IF c.MaxRetryAttempts <= 0 THEN 5 ELSE c.MaxRetryAttempts
    IN /\ \A k \in 1..Len(slept) : slept[k] = RetryTerm(c, k)
       /\ Len(slept) = IF callArgs.failing < maxAttempts
                         THEN callArgs.failing ELSE maxAttempts
       /\ SumOf(slept) <= RetryTermSum(c, maxAttempts)
       /\ (c.RetryInitialBackoffMs <= 0 /\ c.RetryMaxBackoffMs <= 0
             /\ Len(slept) = 5)
            => slept = <<100, 200, 400, 800, 1600>>
       /\ callRes[1].ret = IF callArgs.failing < maxAttempts THEN "strm" ELSE "error"

\* a call with the default values whose five attempts all failed: it slept
\* after each of them and returned the error
C38_Witness ==
  /\ callRes # <<>>
  /\ callArgs.cfg.RetryInitialBackoffMs = 0
  /\ callArgs.cfg.RetryMaxBackoffMs = 0
  /\ callArgs.cfg.MaxRetryAttempts = 0
  /\ callArgs.failing = 6
  /\ callRes[1].ret = "error"
  /\ callRes[1].slept = <<100, 200, 400, 800, 1600>>

\* C39: each built header takes the counter incremented once and carries
\* TSval = h.time + (tsCounter >> 3), and the TSval of a header is never
\* below the TSval of the header built before it, wrap-around of the
\* counter and of the sum included.
C39_TSvalNonDecreasing ==
  [][(callRes # <<>> /\ callArgs' # callArgs) =>
       /\ tsCounter' = Add32(tsCounter, U32FromInt(1))
       /\ callRes'[1].tsval = Add32(bootTime, Shr3(tsCounter'))
       /\ Le32(callRes[1].tsval, callRes'[1].tsval)]_vars

\* the payload lies within the obfuscator's size limit
WithinLimit(name, n) ==
  IF name = "padding" THEN n <= 65535
  ELSE IF name = "tls" THEN n <= 16382
  ELSE TRUE

\* C40: for none, padding and tls, Wrap of a payload within the size limit
\* succeeds, adds at most Overhead() bytes, and Unwrap of the result is the
\* payload, whatever padding was drawn; Wrap of a payload above the limit
\* returns ErrBufferTooSmall; Unwrap of bytes shorter than the header or
\* than the declared length returns ErrInvalidData.
C40_ObfuscatorsRoundTrip ==
  callRes # <<>> =>
    LET a == callArgs
        o == NewObfuscator(a.name, a.key)
        w == callRes[1].w
        u == callRes[1].u
        k == CutLen(a, w.buf)
    IN /\ WithinLimit(a.name, a.n) =>
            /\ w.err = "nil"
            /\ BufLen(w.buf) >= a.n
            /\ BufLen(w.buf) - a.n <= Overhead(o)
       /\ ~WithinLimit(a.name, a.n) => w.err = "ErrBufferTooSmall"
       /\ u.err # "pending" =>
            /\ k = BufLen(w.buf) => (u.err = "nil" /\ u.buf = PayloadOf(a.n))
            /\ (a.name = "padding" /\ k < 2 + a.n) => u.err = "ErrInvalidData"
            /\ (a.name = "tls" /\ k < BufLen(w.buf)) => u.err = "ErrInvalidData"

\* a padding frame of the largest payload with the largest padding was
\* unwrapped to the payload
C40_Witness ==
  /\ callRes # <<>>
  /\ callArgs.name = "padding"
  /\ callArgs.n = 65535
  /\ BufLen(callRes[1].w.buf) = 65535 + 130
  /\ callRes[1].u.err = "nil"
  /\ callRes[1].u.buf = PayloadOf(65535)

====
